---- MODULE Spec2Model ----
(***************************************************************************)
(* Model of the traffic-management core of naebak-gateway:                 *)
(*   - monitoring/health_checker.py : CircuitBreaker (health-check breaker)*)
(*   - routing_system.py            : CircuitBreaker (routing breaker) and *)
(*                                    ServiceRegistry                      *)
(* Time is the wall clock of datetime.now() in whole seconds.              *)
(***************************************************************************)
EXTENDS Integers, Sequences, FiniteSets, TLC

(***************************************************************************)
(* Program constants                                                       *)
(***************************************************************************)
\* CircuitBreakerConfig defaults (health_checker.py)
FailureThreshold == 5
RecoveryTimeout == 60
SuccessThreshold == 3
\* timedelta.seconds is the seconds field of a normalised timedelta
SecondsPerDay == 86400

\* routing CircuitBreaker.__init__ defaults (routing_system.py)
RoutingFailureThreshold == 5
RoutingRecoveryTimeout == 60
\* request_history: deque(maxlen=100) per instance
HistoryMaxLen == 100
\* outcomes younger than this many seconds count for error_rate
ErrorWindow == 300
\* response_time is kept in 1/RtScale milliseconds
RtScale == 100

(***************************************************************************)
(* Bounds of the model                                                     *)
(***************************************************************************)
\* number of clock advances in one behaviour
MaxTicks == 2
\* cap of the (unbounded) failure counters
MaxFailureCount == 6

\* ROUND_ROBIN selections counted per service
MaxSelects == 4
\* register_service calls in one behaviour
MaxRegs == 3
\* update_instance_metrics calls in one behaviour
MaxUpdates == 2
\* cap of a weighted round-robin counter
MaxWeighted == 2
\* length of the URL list of a LoadBalancer
MaxUrls == 3
\* length of the route patterns and of the request paths matched against them
MaxPatLen == 4
MaxPathLen == 4
\* get_next_service_url calls in one behaviour
MaxLbCalls == 7

\* check_service_health calls and check_all_services calls by sequential
\* callers
MaxChecks == 6
MaxCycles == 2

\* appends to health histories by concurrent check_all_services calls
MaxAppends == 150

\* check_all_services cycles on one service before a summary is asked
MaxSumCycles == 11

\* get_state calls in one behaviour
MaxReads == 1

\* iterations of the monitoring loop during which probes may still fail
MaxFaultCycles == 6

\* Thread objects created by start_monitoring, start/stop calls, and
\* iterations of the monitoring loops
MaxLoops == 2
MaxCalls == 3
MaxLoopCycles == 2

\* the amounts by which the clock advances between two calls
TickSteps == {30, RecoveryTimeout, SecondsPerDay}

\* last_failure_time = None (no failure recorded yet); times are >= 0
None == -1

\* the threads that call into one breaker (request handlers, monitoring thread)
Threads == {"t1", "t2"}
NoThread == "none"

\* service names callers use; UnknownService is never registered
ServiceNames == {"s1", "s2"}
InstanceIds == {"A", "B", "C"}
\* ServiceStatus
Statuses == {"healthy", "unhealthy", "degraded", "maintenance"}
\* LoadBalancingStrategy
Strategies == {"round_robin", "least_connections", "weighted_round_robin",
               "random", "ip_hash"}
\* client addresses; NoIP is client_ip = None
ClientIPs == {"ip1", "ip2"}
NoIP == "None"
\* the values hash(client_ip) is drawn from (fixed per process once drawn)
HashValues == 0..5
\* response times reported by the proxy, in ms
RtSamples == {0, 100}
\* active_connections values of the instances callers register
ConnSamples == {1, 2, 3}

\* weight and active_connections of the instances the callers register
WeightOf(i) == IF i = "A" THEN 2 ELSE 1
ConnsOf(i) == CASE i = "A" -> 3 [] i = "B" -> 1 [] OTHER -> 2

VARIABLES
    services,            \* ServiceRegistry.services: name -> list of instances
    circuit_breakers,    \* ServiceRegistry.circuit_breakers: name -> routing breaker
    load_balancer_state, \* ServiceRegistry.load_balancer_state: name -> dict
    request_history,     \* ServiceRegistry.request_history: <<name, id>> -> deque
    hashOf,              \* hash() of the client addresses hashed so far
    selRet,              \* the value returned by the last select_instance
    selSvc,              \* the service name passed to the last select_instance
    rrK,                 \* history: per service, the number of ROUND_ROBIN selections
                         \* made on an unchanged eligible list (-1 once it changed)
    rrList,              \* history: per service, the eligible list of its first
                         \* ROUND_ROBIN selection
    callRet,             \* the outcome of the last routing-breaker call()
    statsRet,            \* the dict returned by the last get_service_stats
    regs,                \* number of register_service calls so far
    updates,             \* number of update_instance_metrics calls so far
    now,            \* datetime.now(), seconds
    ticks,          \* number of clock advances so far
    cb,             \* the health-check CircuitBreaker's fields
    op,             \* the last operation performed
    cbRet,          \* the value returned by the last can_execute
    failsSince,     \* history: record_failure calls since the last record_success
    hoSuccesses,    \* history: record_success calls since cb last entered HALF_OPEN
    lock,           \* CircuitBreaker.lock: the thread holding it, or NoThread
    pc,             \* per thread: the statement of the breaker method it is at
    tmp,            \* per thread: the value it read for a += 1
    stamp,          \* per thread: the datetime.now() it read in this call
    tret,           \* per thread: the value its last can_execute returned
    lin,            \* history: the breaker after the completed calls, applied one at a time
    linRet,         \* history: per thread, what its last can_execute returns on lin
    snap,           \* per thread: the healthy_instances list of its select_instance
    retCount,       \* history: per instance id, the ROUND_ROBIN selections
                    \* that threads got returned
    gs,             \* the caller of CircuitBreaker.get_state: the expression
                    \* it is at (pc), the dict it builds (ret), its number
                    \* of calls, and as history the values the breaker's
                    \* fields had together at some instant of the call
                    \* that agree with what the dict holds so far (seen)
    route_rules,    \* ServiceRegistry.route_rules: the dict, as its items in
                    \* insertion order
    routeArg,       \* the pattern / path passed to the last route operation
    routeRet,       \* the value returned by the last find_route_rule
    addRet,         \* how the last add_route_rule ended
    matchRet,       \* the value returned by _pattern_matches
    firstAdded,     \* history: the patterns in the order they were first added
    latestRule,     \* history: per pattern, the rule it was last added with
                    \* and whether it was added more than once
    service_urls,   \* LoadBalancer.service_urls: the itertools.cycle object
    lbUrls,         \* history: the list the LoadBalancer was constructed with
    lbK,            \* history: number of get_next_service_url calls so far
    lbRet,          \* the value returned by the last get_next_service_url
    lastReg,        \* history: the arguments of the last register_service
    selStrategy,    \* history: the strategy passed to the last select_instance
    selIp,          \* history: the client_ip passed to the last select_instance
    wK,             \* history: WEIGHTED_ROUND_ROBIN selections of "s1" made on an
                    \* unchanged eligible list (-1 once it changed)
    wList,          \* history: the eligible list of the first such selection
    wCount,         \* history: per instance id, how often these selected it
    affinity,       \* history: per client address, the eligible list and the
                    \* instance of its latest IP_HASH selection
    services_config,     \* HealthChecker.services_config: its keys in dict order
    hc_circuit_breakers, \* HealthChecker.circuit_breakers: name -> breaker
    health_history,      \* HealthChecker.health_history: name -> list of results
    running,             \* HealthChecker.running
    check_thread,        \* HealthChecker.check_thread: a loop id, or None
    hlock,               \* HealthChecker.lock: the thread holding it, or NoThread
    hcArg,          \* the argument of the last HealthChecker call: a service
                    \* name, or what requests.get does per service
    hcRet,          \* the value returned by the last HealthChecker call
    probes,         \* history: number of requests.get calls so far
    recorded,       \* history: number of record_success and record_failure
                    \* calls made by check_service_health
    checks,         \* number of check_service_health calls by sequential callers
    cycles,         \* number of check_all_services calls by sequential callers
    appended,       \* history: per service, the number of appends to its history
    loopPc,         \* per Thread object: where its _monitoring_loop is at
    ctlPc,          \* per controller: the statement of start/stop it is at
    ctlThread,      \* per controller: the thread it calls join() on
    ctlCalls,       \* number of start_monitoring / stop_monitoring calls so far
    loopCycles,     \* history: loop iterations that entered check_all_services
    loopDone,       \* history: loop iterations whose check_all_services returned
    loopRaised,     \* history: loop iterations whose check_all_services raised
    liveAtStop,     \* history: per controller, the loops that were running
                    \* when its last stop_monitoring began
    hpc,            \* per thread: the statement of check_all_services it is at
    hidx,           \* per thread: the position of its loop over services_config
    hres,           \* per thread: the result it is about to append
    hslice          \* per thread: the list slice it is about to assign

cbVars == <<cb, cbRet, failsSince, hoSuccesses>>
clockVars == <<now, ticks>>
thVars == <<lock, pc, tmp, stamp, tret, lin, linRet, snap, retCount, gs>>
regVars == <<services, circuit_breakers, load_balancer_state, request_history,
             hashOf, selRet, selSvc, callRet, statsRet, regs, updates>>
rrVars == <<rrK, rrList, selStrategy, selIp, wK, wList, wCount, affinity>>
routeVars == <<route_rules, routeArg, routeRet, addRet, matchRet, firstAdded,
               latestRule>>
lbVars == <<service_urls, lbUrls, lbK, lbRet>>
hcState == <<services_config, hc_circuit_breakers, health_history, running,
             check_thread, hlock>>
hcCalls == <<hcArg, hcRet, probes, recorded, checks, cycles, appended>>
loopVars == <<loopCycles, loopDone, loopRaised, liveAtStop>>
monVars == <<loopPc, ctlPc, ctlThread, ctlCalls, loopCycles, loopDone,
             loopRaised, liveAtStop>>
histVars == <<hpc, hidx, hres, hslice>>
hcVars == <<services_config, hc_circuit_breakers, health_history, running,
            check_thread, hlock, hcArg, hcRet, probes, recorded, checks,
            cycles, appended, loopPc, ctlPc, ctlThread, ctlCalls, loopCycles,
            loopDone, loopRaised, liveAtStop, hpc, hidx, hres, hslice>>

vars == <<now, ticks, cb, op, cbRet, failsSince, hoSuccesses,
          lock, pc, tmp, stamp, tret, lin, linRet, snap, retCount, gs,
          services, circuit_breakers, load_balancer_state, request_history,
          hashOf, selRet, selSvc, callRet, statsRet, regs, updates, rrK, rrList,
          selStrategy, selIp, wK, wList, wCount, affinity,
          route_rules, routeArg, routeRet, addRet, matchRet, firstAdded,
          latestRule,
          service_urls, lbUrls, lbK, lbRet, lastReg,
          services_config, hc_circuit_breakers, health_history, running,
          check_thread, hlock, hcArg, hcRet, probes, recorded, checks,
          cycles, appended, loopPc, ctlPc, ctlThread, ctlCalls, loopCycles,
          loopDone, loopRaised, liveAtStop, hpc, hidx, hres, hslice>>

(***************************************************************************)
(* health_checker.py : CircuitBreaker                                      *)
(***************************************************************************)
\* CircuitBreaker.__init__
CircuitBreakerInit ==
    [state |-> "CLOSED", failure_count |-> 0, success_count |-> 0,
     last_failure_time |-> None]

\* (datetime.now() - t).seconds
TimedeltaSeconds(d) == d % SecondsPerDay

\* a breaker that never attempts a reset
should_attempt_reset_never(b, t) == FALSE

\* CircuitBreaker._should_attempt_reset
should_attempt_reset(b, t) ==
    IF b.last_failure_time = None
    THEN TRUE
    ELSE TimedeltaSeconds(t - b.last_failure_time) >= RecoveryTimeout

\* CircuitBreaker.can_execute: the returned value
can_execute_ret(b, t) ==
    CASE b.state = "CLOSED" -> TRUE
      [] b.state = "OPEN" -> should_attempt_reset(b, t)
      [] b.state = "HALF_OPEN" -> TRUE
      [] OTHER -> FALSE

\* can_execute that forgets to clear success_count on entering HALF_OPEN
can_execute_state_noreset(b, t) ==
    IF b.state = "OPEN" /\ should_attempt_reset(b, t)
    THEN [b EXCEPT !.state = "HALF_OPEN"]
    ELSE b

\* CircuitBreaker.can_execute: the breaker it leaves
can_execute_state(b, t) ==
    IF b.state = "OPEN" /\ should_attempt_reset(b, t)
    THEN [b EXCEPT !.state = "HALF_OPEN", !.success_count = 0]
    ELSE b

\* CircuitBreaker.record_success
record_success(b) ==
    LET b1 == [b EXCEPT !.failure_count = 0] IN
    IF b1.state = "HALF_OPEN"
    THEN LET b2 == [b1 EXCEPT !.success_count = b1.success_count + 1] IN
         IF b2.success_count >= SuccessThreshold
         THEN [b2 EXCEPT !.state = "CLOSED"]
         ELSE b2
    ELSE b1

\* record_failure that opens one failure late (> instead of >=)
record_failure_late(b, t) ==
    LET b1 == [b EXCEPT !.failure_count = b.failure_count + 1,
                        !.last_failure_time = t] IN
    CASE b1.state = "CLOSED" ->
            IF b1.failure_count > FailureThreshold
            THEN [b1 EXCEPT !.state = "OPEN"]
            ELSE b1
      [] b1.state = "HALF_OPEN" -> [b1 EXCEPT !.state = "OPEN"]
      [] OTHER -> b1

\* CircuitBreaker.record_failure
record_failure(b, t) ==
    LET b1 == [b EXCEPT !.failure_count = b.failure_count + 1,
                        !.last_failure_time = t] IN
    CASE b1.state = "CLOSED" ->
            IF b1.failure_count >= FailureThreshold
            THEN [b1 EXCEPT !.state = "OPEN"]
            ELSE b1
      [] b1.state = "HALF_OPEN" -> [b1 EXCEPT !.state = "OPEN"]
      [] OTHER -> b1

\* a caller invokes can_execute()
CanExecute ==
    /\ cb' = can_execute_state(cb, now)
    /\ cbRet' = can_execute_ret(cb, now)
    /\ op' = "can_execute"
    /\ hoSuccesses' = IF cb.state = "OPEN" /\ cb'.state = "HALF_OPEN"
                      THEN 0 ELSE hoSuccesses
    /\ UNCHANGED <<hcVars, routeVars, lbVars, lastReg, failsSince, clockVars, thVars, regVars, rrVars>>

\* a caller invokes record_success()
RecordSuccess ==
    /\ cb' = record_success(cb)
    /\ op' = "record_success"
    /\ failsSince' = 0
    /\ hoSuccesses' = IF cb.state = "HALF_OPEN"
                      THEN hoSuccesses + 1 ELSE hoSuccesses
    /\ UNCHANGED <<hcVars, routeVars, lbVars, lastReg, cbRet, clockVars, thVars, regVars, rrVars>>

\* a caller invokes record_failure()
RecordFailure ==
    /\ cb.failure_count < MaxFailureCount
    /\ cb' = record_failure(cb, now)
    /\ op' = "record_failure"
    /\ failsSince' = failsSince + 1
    /\ UNCHANGED <<hcVars, routeVars, lbVars, lastReg, cbRet, hoSuccesses, clockVars, thVars, regVars, rrVars>>

\* the wall clock advances between two calls
Tick ==
    /\ ticks < MaxTicks
    /\ \E d \in TickSteps : now' = now + d
    /\ ticks' = ticks + 1
    /\ op' = "tick"
    /\ UNCHANGED <<hcVars, routeVars, lbVars, lastReg, cb, cbRet, failsSince, hoSuccesses, thVars, regVars, rrVars>>


(***************************************************************************)
(* health_checker.py : CircuitBreaker called from several threads.         *)
(* Every method body runs inside `with self.lock:`; a thread can be        *)
(* pre-empted between any two statements, and `x += 1` is a read followed  *)
(* by a write.                                                             *)
(***************************************************************************)
\* a lock that never makes a caller wait
lock_never_waits(l) == TRUE

\* threading.Lock: `with self.lock` proceeds only when no thread holds it
lock_available(l) == l = NoThread

\* the three fields the breaker's transitions are about
Fields(b) == <<b.state, b.failure_count, b.success_count>>

\* a thread calls one of the breaker's methods
ThCall(t) ==
    /\ pc[t] = "idle"
    /\ \E m \in {"can_execute", "record_success", "record_failure"} :
          pc' = [pc EXCEPT ![t] = m]
    /\ UNCHANGED <<cb, lock, tmp, stamp, tret, lin, linRet>>

\* `with self.lock:` of the method the thread called
ThAcquire(t) ==
    /\ pc[t] \in {"can_execute", "record_success", "record_failure"}
    /\ lock_available(lock)
    /\ pc[t] = "record_failure" => cb.failure_count < MaxFailureCount
    /\ lock' = t
    /\ pc' = [pc EXCEPT ![t] =
                CASE pc[t] = "can_execute" -> "ce_check"
                  [] pc[t] = "record_success" -> "rs_reset"
                  [] pc[t] = "record_failure" -> "rf_read"]
    /\ UNCHANGED <<cb, tmp, stamp, tret, lin, linRet>>

\* can_execute, lines 64-74: the tests on self.state and _should_attempt_reset
ThCeCheck(t) ==
    /\ pc[t] = "ce_check"
    /\ stamp' = [stamp EXCEPT ![t] = now]
    /\ tret' = [tret EXCEPT ![t] = can_execute_ret(cb, now)]
    /\ pc' = [pc EXCEPT ![t] =
                IF cb.state = "OPEN" /\ should_attempt_reset(cb, now)
                THEN "ce_half" ELSE "ce_release"]
    /\ UNCHANGED <<cb, lock, tmp, lin, linRet>>

\* can_execute, line 68: self.state = CircuitState.HALF_OPEN
ThCeHalf(t) ==
    /\ pc[t] = "ce_half"
    /\ cb' = [cb EXCEPT !.state = "HALF_OPEN"]
    /\ pc' = [pc EXCEPT ![t] = "ce_zero"]
    /\ UNCHANGED <<lock, tmp, stamp, tret, lin, linRet>>

\* a can_execute that leaves success_count as it is
ThCeZero_skip(t) ==
    /\ pc[t] = "ce_zero"
    /\ pc' = [pc EXCEPT ![t] = "ce_release"]
    /\ UNCHANGED <<cb, lock, tmp, stamp, tret, lin, linRet>>

\* can_execute, line 69: self.success_count = 0
ThCeZero(t) ==
    /\ pc[t] = "ce_zero"
    /\ cb' = [cb EXCEPT !.success_count = 0]
    /\ pc' = [pc EXCEPT ![t] = "ce_release"]
    /\ UNCHANGED <<lock, tmp, stamp, tret, lin, linRet>>

\* record_success, line 79: self.failure_count = 0, then the test of line 80
ThRsReset(t) ==
    /\ pc[t] = "rs_reset"
    /\ cb' = [cb EXCEPT !.failure_count = 0]
    /\ pc' = [pc EXCEPT ![t] = IF cb.state = "HALF_OPEN"
                                THEN "rs_read" ELSE "rs_release"]
    /\ UNCHANGED <<lock, tmp, stamp, tret, lin, linRet>>

\* record_success, line 81: the read of self.success_count += 1
ThRsRead(t) ==
    /\ pc[t] = "rs_read"
    /\ tmp' = [tmp EXCEPT ![t] = cb.success_count]
    /\ pc' = [pc EXCEPT ![t] = "rs_write"]
    /\ UNCHANGED <<cb, lock, stamp, tret, lin, linRet>>

\* record_success, line 81: the write of self.success_count += 1
ThRsWrite(t) ==
    /\ pc[t] = "rs_write"
    /\ cb' = [cb EXCEPT !.success_count = tmp[t] + 1]
    /\ pc' = [pc EXCEPT ![t] = "rs_state"]
    /\ UNCHANGED <<lock, tmp, stamp, tret, lin, linRet>>

\* record_success, lines 82-83: close at the threshold
ThRsState(t) ==
    /\ pc[t] = "rs_state"
    /\ cb' = IF cb.success_count >= SuccessThreshold
              THEN [cb EXCEPT !.state = "CLOSED"] ELSE cb
    /\ pc' = [pc EXCEPT ![t] = "rs_release"]
    /\ UNCHANGED <<lock, tmp, stamp, tret, lin, linRet>>

\* record_failure, line 89: the read of self.failure_count += 1
ThRfRead(t) ==
    /\ pc[t] = "rf_read"
    /\ tmp' = [tmp EXCEPT ![t] = cb.failure_count]
    /\ pc' = [pc EXCEPT ![t] = "rf_write"]
    /\ UNCHANGED <<cb, lock, stamp, tret, lin, linRet>>

\* record_failure, line 89: the write of self.failure_count += 1
ThRfWrite(t) ==
    /\ pc[t] = "rf_write"
    /\ cb' = [cb EXCEPT !.failure_count = tmp[t] + 1]
    /\ pc' = [pc EXCEPT ![t] = "rf_stamp"]
    /\ UNCHANGED <<lock, tmp, stamp, tret, lin, linRet>>

\* record_failure, line 90: self.last_failure_time = datetime.now()
ThRfStamp(t) ==
    /\ pc[t] = "rf_stamp"
    /\ cb' = [cb EXCEPT !.last_failure_time = now]
    /\ stamp' = [stamp EXCEPT ![t] = now]
    /\ pc' = [pc EXCEPT ![t] = "rf_state"]
    /\ UNCHANGED <<lock, tmp, tret, lin, linRet>>

\* record_failure, lines 92-98: open at the threshold or from HALF_OPEN
ThRfState(t) ==
    /\ pc[t] = "rf_state"
    /\ cb' = CASE cb.state = "CLOSED" ->
                    IF cb.failure_count >= FailureThreshold
                    THEN [cb EXCEPT !.state = "OPEN"] ELSE cb
                [] cb.state = "HALF_OPEN" -> [cb EXCEPT !.state = "OPEN"]
                [] OTHER -> cb
    /\ pc' = [pc EXCEPT ![t] = "rf_release"]
    /\ UNCHANGED <<lock, tmp, stamp, tret, lin, linRet>>

\* the end of the `with self.lock:` block and the return of the method; the
\* completed call is applied to lin as one step
ThRelease(t) ==
    /\ pc[t] \in {"ce_release", "rs_release", "rf_release"}
    /\ lock' = NoThread
    /\ lin' = CASE pc[t] = "ce_release" -> can_execute_state(lin, stamp[t])
                 [] pc[t] = "rs_release" -> record_success(lin)
                 [] pc[t] = "rf_release" -> record_failure(lin, stamp[t])
    /\ linRet' = IF pc[t] = "ce_release"
                  THEN [linRet EXCEPT ![t] = can_execute_ret(lin, stamp[t])]
                  ELSE linRet
    /\ pc' = [pc EXCEPT ![t] = "idle"]
    /\ tmp' = [tmp EXCEPT ![t] = 0]
    /\ stamp' = [stamp EXCEPT ![t] = 0]
    /\ UNCHANGED <<cb, tret>>

\* one statement of one thread
ThStep(t) ==
    /\ \/ ThCall(t) \/ ThAcquire(t) \/ ThCeCheck(t) \/ ThCeHalf(t)
       \/ ThCeZero(t) \/ ThRsReset(t) \/ ThRsRead(t) \/ ThRsWrite(t)
       \/ ThRsState(t) \/ ThRfRead(t) \/ ThRfWrite(t) \/ ThRfStamp(t)
       \/ ThRfState(t) \/ ThRelease(t)
    /\ UNCHANGED <<hcVars, routeVars, lbVars, lastReg, op, cbRet, failsSince, hoSuccesses, clockVars, regVars,
                   rrVars, snap, retCount>>

(***************************************************************************)
(* health_checker.py : CircuitBreaker.get_state, which takes no lock,      *)
(* expression by expression of the dict it returns                         *)
(***************************************************************************)
\* the caller of get_state between two calls
GsIdle == [pc |-> "idle", ret |-> <<>>, seen |-> {}, calls |-> 0]

\* a thread calls get_state()
GsCall ==
    /\ gs.pc = "idle"
    /\ gs.calls < MaxReads
    /\ gs' = [pc |-> "state", ret |-> <<>>, seen |-> {cb},
              calls |-> gs.calls + 1]
    /\ op' = "get_state: called"

\* the values among seen that have value v in the given field
Agreeing(seen, field, v) == {b \in seen : b[field] = v}

\* get_state, lines 110-112: one field is read into the dict
GsRead(field, next) ==
    /\ gs.pc = field
    /\ gs' = [gs EXCEPT !.ret = (field :> cb[field]) @@ gs.ret,
                        !.seen = Agreeing(@, field, cb[field]),
                        !.pc = next]
    /\ UNCHANGED op

\* get_state, line 113: the test `if self.last_failure_time`
GsTestTime ==
    /\ gs.pc = "test"
    /\ gs' = IF cb.last_failure_time = None
             THEN [gs EXCEPT !.ret = ("last_failure_time" :> None) @@ gs.ret,
                             !.seen = Agreeing(@, "last_failure_time", None),
                             !.pc = "return"]
             ELSE [gs EXCEPT !.pc = "last_failure_time"]
    /\ UNCHANGED op

\* get_state returns the dict gs.ret
GsReturn ==
    /\ gs.pc = "return"
    /\ gs' = [GsIdle EXCEPT !.calls = gs.calls]
    /\ op' = "get_state"

\* one step of the caller of get_state
GsStep ==
    /\ \/ GsCall
       \/ GsRead("state", "failure_count")
       \/ GsRead("failure_count", "success_count")
       \/ GsRead("success_count", "test")
       \/ GsTestTime
       \/ GsRead("last_failure_time", "return")
       \/ GsReturn
    /\ UNCHANGED <<hcVars, routeVars, lbVars, lastReg, cbVars, clockVars,
                   regVars, rrVars, lock, pc, tmp, stamp, tret, lin, linRet,
                   snap, retCount>>

\* the caller of get_state leaves the breaker's other callers alone; while
\* its call lasts, every value the breaker's fields take that agrees with
\* the dict so far is noted
GsObserves ==
    gs' = IF gs.pc # "idle" /\ \A f \in DOMAIN gs.ret : gs.ret[f] = cb'[f]
          THEN [gs EXCEPT !.seen = @ \cup {cb'}]
          ELSE gs

(***************************************************************************)
(* routing_system.py : CircuitBreaker (routing breaker)                    *)
(***************************************************************************)
\* CircuitBreaker.__init__
RoutingBreakerInit ==
    [state |-> "CLOSED", failure_count |-> 0, last_failure_time |-> None]

\* CircuitBreaker._should_attempt_reset
routing_should_attempt_reset(b, t) ==
    IF b.last_failure_time = None
    THEN TRUE
    ELSE TimedeltaSeconds(t - b.last_failure_time) >= RoutingRecoveryTimeout

\* CircuitBreaker._on_success
on_success(b) == [b EXCEPT !.failure_count = 0, !.state = "CLOSED"]

\* an _on_failure that counts and stamps the failure but never opens
on_failure_never_opens(b, t) ==
    [b EXCEPT !.failure_count = b.failure_count + 1, !.last_failure_time = t]

\* CircuitBreaker._on_failure
on_failure(b, t) ==
    LET b1 == [b EXCEPT !.failure_count = b.failure_count + 1,
                        !.last_failure_time = t] IN
    IF b1.failure_count >= RoutingFailureThreshold
    THEN [b1 EXCEPT !.state = "OPEN"]
    ELSE b1

\* CircuitBreaker.call: TRUE when it raises "Circuit breaker is OPEN"
call_rejects(b, t) == b.state = "OPEN" /\ ~routing_should_attempt_reset(b, t)

\* CircuitBreaker.call: the breaker after calling a func that returns (ok)
\* or raises (~ok)
call_state(b, t, ok) ==
    IF call_rejects(b, t)
    THEN b
    ELSE LET b1 == IF b.state = "OPEN"
                   THEN [b EXCEPT !.state = "HALF_OPEN"] ELSE b IN
         IF ok THEN on_success(b1) ELSE on_failure(b1, t)

(***************************************************************************)
(* routing_system.py : ServiceRegistry                                     *)
(***************************************************************************)
\* dict.get(k, default)
Get(d, k, default) == IF k \in DOMAIN d THEN d[k] ELSE default

\* d[k] = v
Put(d, k, v) == [x \in DOMAIN d \cup {k} |-> IF x = k THEN v ELSE d[x]]

\* the empty dict
EmptyDict == [x \in {} |-> 0]

\* select_instance returning None
NoInstance == [id |-> "None"]

\* find_route_rule returning None
NoRule == [service_name |-> "None"]

\* a ServiceInstance as a caller constructs it (response_time and error_rate
\* at their defaults 0.0; error_rate is kept as failed/total * 100)
NewInstance(i, st) ==
    [id |-> i, status |-> st, weight |-> WeightOf(i),
     active_connections |-> ConnsOf(i), response_time |-> 0,
     error_rate |-> [failed |-> 0, total |-> 1]]

\* a ServiceInstance constructed with the given active_connections
InstanceWithConns(i, st, conns) ==
    [id |-> i, status |-> st, weight |-> WeightOf(i),
     active_connections |-> conns, response_time |-> 0,
     error_rate |-> [failed |-> 0, total |-> 1]]

InstancePool == {NewInstance(i, st) : i \in InstanceIds, st \in Statuses}

\* a value of load_balancer_state: the dict without 'round_robin_index' and
\* without 'weighted_counters'
EmptyLB == [round_robin_index |-> None, weighted_counters |-> EmptyDict]

\* a filter that removes nothing
WithoutId_keeps_all(instances, i) == instances

\* [inst for inst in instances if inst.id != id]
WithoutId(instances, i) ==
    LET Keep(inst) == inst.id # i IN SelectSeq(instances, Keep)

\* an eligibility test that only excludes UNHEALTHY
Eligible_not_unhealthy(inst) == inst.status # "unhealthy"

\* inst.status in [ServiceStatus.HEALTHY, ServiceStatus.DEGRADED]
Eligible(inst) == inst.status \in {"healthy", "degraded"}

\* a filter that keeps every instance
get_healthy_instances_all(svcs, s) == Get(svcs, s, <<>>)

\* ServiceRegistry.get_healthy_instances
get_healthy_instances(svcs, s) == SelectSeq(Get(svcs, s, <<>>), Eligible)

\* min(seq, key=...): the index of the first element no other is less than
FirstMin(seq, Less(_, _)) ==
    CHOOSE i \in 1..Len(seq) :
        /\ \A j \in 1..Len(seq) : ~Less(seq[j], seq[i])
        /\ \A j \in 1..(i - 1) : Less(seq[i], seq[j])

\* _round_robin_select keeping one cursor for all services
round_robin_select_shared(lbs, s, instances) ==
    LET st0 == Get(lbs, "shared", EmptyLB)
        st1 == IF st0.round_robin_index = None
               THEN [st0 EXCEPT !.round_robin_index = 0] ELSE st0
        index == st1.round_robin_index
        selected == instances[(index % Len(instances)) + 1]
        st2 == [st1 EXCEPT !.round_robin_index = (index + 1) % Len(instances)]
    IN  <<selected, Put(lbs, "shared", st2)>>

\* ServiceRegistry._round_robin_select: <<selected, load_balancer_state>>
round_robin_select(lbs, s, instances) ==
    LET st0 == Get(lbs, s, EmptyLB)
        st1 == IF st0.round_robin_index = None
               THEN [st0 EXCEPT !.round_robin_index = 0] ELSE st0
        index == st1.round_robin_index
        selected == instances[(index % Len(instances)) + 1]
        st2 == [st1 EXCEPT !.round_robin_index = (index + 1) % Len(instances)]
    IN  <<selected, Put(lbs, s, st2)>>

\* a least-connections choice that takes the last of several minimal ones
least_connections_select_last(instances) ==
    instances[CHOOSE i \in 1..Len(instances) :
        /\ \A j \in 1..Len(instances) :
              instances[j].active_connections >= instances[i].active_connections
        /\ \A j \in (i + 1)..Len(instances) :
              instances[j].active_connections > instances[i].active_connections]

\* ServiceRegistry._least_connections_select
least_connections_select(instances) ==
    LET Less(a, b) == a.active_connections < b.active_connections
    IN  instances[FirstMin(instances, Less)]

\* a weighted round-robin that compares the counters and ignores the weights
weighted_round_robin_select_unweighted(lbs, s, instances) ==
    LET st0 == Get(lbs, s, EmptyLB)
        ids == {instances[k].id : k \in 1..Len(instances)}
        st1 == IF st0.weighted_counters = EmptyDict
               THEN [st0 EXCEPT !.weighted_counters = [i \in ids |-> 0]]
               ELSE st0
        counters == st1.weighted_counters
        Less(a, b) == Get(counters, a.id, 0) < Get(counters, b.id, 0)
        selected == instances[FirstMin(instances, Less)]
        st2 == [st1 EXCEPT !.weighted_counters =
                   Put(counters, selected.id, Get(counters, selected.id, 0) + 1)]
    IN  <<selected, Put(lbs, s, st2)>>

\* ServiceRegistry._weighted_round_robin_select: <<selected, load_balancer_state>>
weighted_round_robin_select(lbs, s, instances) ==
    LET st0 == Get(lbs, s, EmptyLB)
        ids == {instances[k].id : k \in 1..Len(instances)}
        st1 == IF st0.weighted_counters = EmptyDict
               THEN [st0 EXCEPT !.weighted_counters = [i \in ids |-> 0]]
               ELSE st0
        counters == st1.weighted_counters
        \* counters.get(a.id, 0) / a.weight < counters.get(b.id, 0) / b.weight
        Less(a, b) == Get(counters, a.id, 0) * b.weight
                        < Get(counters, b.id, 0) * a.weight
        selected == instances[FirstMin(instances, Less)]
        st2 == [st1 EXCEPT !.weighted_counters =
                   Put(counters, selected.id, Get(counters, selected.id, 0) + 1)]
    IN  <<selected, Put(lbs, s, st2)>>

\* an IP hash that drops the lowest bit of the hash value
ip_hash_select_shifted(instances, ip, r, h) ==
    IF ip = NoIP
    THEN instances[r]
    ELSE instances[((h \div 2) % Len(instances)) + 1]

\* ServiceRegistry._ip_hash_select; r is the draw of random.choice and h is
\* hash(client_ip)
ip_hash_select(instances, ip, r, h) ==
    IF ip = NoIP
    THEN instances[r]
    ELSE instances[(h % Len(instances)) + 1]

\* ServiceRegistry.select_instance: <<returned value, load_balancer_state>>
select_instance(svcs, lbs, s, strategy, ip, r, h) ==
    LET healthy_instances == get_healthy_instances(svcs, s) IN
    IF healthy_instances = <<>>
    THEN <<NoInstance, lbs>>
    ELSE CASE strategy = "round_robin" ->
                round_robin_select(lbs, s, healthy_instances)
           [] strategy = "least_connections" ->
                <<least_connections_select(healthy_instances), lbs>>
           [] strategy = "weighted_round_robin" ->
                weighted_round_robin_select(lbs, s, healthy_instances)
           [] strategy = "random" -> <<healthy_instances[r], lbs>>
           [] strategy = "ip_hash" ->
                <<ip_hash_select(healthy_instances, ip, r, h), lbs>>
           [] OTHER -> <<healthy_instances[1], lbs>>

\* statsRet before any get_service_stats call
NoStats == [service_name |-> "None"]

\* sum(inst.response_time for inst in instances)
RECURSIVE SumInstanceTimes(_)
SumInstanceTimes(instances) ==
    IF instances = <<>> THEN 0
    ELSE Head(instances).response_time + SumInstanceTimes(Tail(instances))

\* sum(inst.error_rate for inst in instances), as one fraction of 100
RECURSIVE SumErrorRates(_)
SumErrorRates(instances) ==
    IF instances = <<>> THEN [failed |-> 0, total |-> 1]
    ELSE LET e == Head(instances).error_rate
             rest == SumErrorRates(Tail(instances)) IN
         [failed |-> e.failed * rest.total + rest.failed * e.total,
          total |-> e.total * rest.total]

\* len([inst for inst in instances if inst.status == ServiceStatus.HEALTHY])
healthy_count(instances) ==
    LET Healthy(inst) == inst.status = "healthy" IN
    Len(SelectSeq(instances, Healthy))

\* ServiceRegistry.get_service_stats: the dict it returns; the averages are
\* kept as the sum and the number it is divided by, the instances without
\* their url
get_service_stats(svcs, s) ==
    LET instances == Get(svcs, s, <<>>) IN
    IF instances = <<>>
    THEN [service_name |-> s, instance_count |-> 0, healthy_instances |-> 0,
          status |-> "unavailable"]
    ELSE [service_name |-> s,
          instance_count |-> Len(instances),
          healthy_instances |-> healthy_count(instances),
          status |-> IF healthy_count(instances) > 0
                     THEN "healthy" ELSE "unhealthy",
          avg_response_time |-> [sum |-> SumInstanceTimes(instances),
                                 count |-> Len(instances)],
          avg_error_rate |-> [sum |-> SumErrorRates(instances),
                              count |-> Len(instances)],
          instances |-> [k \in 1..Len(instances) |->
                           [id |-> instances[k].id,
                            status |-> instances[k].status,
                            response_time |-> instances[k].response_time,
                            error_rate |-> instances[k].error_rate,
                            active_connections |->
                                instances[k].active_connections]]]

\* TRUE when the call draws from random.choice
UsesRandom(strategy, ip) ==
    strategy = "random" \/ (strategy = "ip_hash" /\ ip = NoIP)

\* TRUE when the call evaluates hash(client_ip)
UsesHash(strategy, ip) == strategy = "ip_hash" /\ ip # NoIP

\* ServiceRegistry.register_service
RegisterService(s, instance) ==
    /\ regs < MaxRegs
    /\ services' = Put(services, s,
                       Append(WithoutId(Get(services, s, <<>>), instance.id),
                              instance))
    /\ circuit_breakers' = IF s \in DOMAIN circuit_breakers
                           THEN circuit_breakers
                           ELSE Put(circuit_breakers, s, RoutingBreakerInit)
    /\ regs' = regs + 1
    /\ op' = "register_service"
    /\ UNCHANGED <<load_balancer_state, request_history, hashOf, selRet,
                   selSvc, callRet, statsRet, updates>>
    /\ UNCHANGED <<hcVars, routeVars, lbVars, cbVars, clockVars, thVars, rrVars>>

\* ServiceRegistry.deregister_service
DeregisterService(s, i) ==
    /\ services' = Put(services, s, WithoutId(Get(services, s, <<>>), i))
    /\ op' = "deregister_service"
    /\ UNCHANGED <<circuit_breakers, load_balancer_state, request_history,
                   hashOf, selRet, selSvc, callRet, statsRet, regs, updates>>
    /\ UNCHANGED <<hcVars, routeVars, lbVars, lastReg, cbVars, clockVars, thVars, rrVars>>

\* the largest weighted counter of a load_balancer_state
CountersWithin(lbs, bound) ==
    \A s \in DOMAIN lbs : \A i \in DOMAIN lbs[s].weighted_counters :
        lbs[s].weighted_counters[i] <= bound

\* ServiceRegistry.select_instance, explored while no weighted counter
\* exceeds cap
SelectInstanceWithin(s, strategy, ip, cap) ==
    LET n == Len(get_healthy_instances(services, s))
        draws == IF UsesRandom(strategy, ip) /\ n > 0 THEN 1..n ELSE {1}
        hashed == UsesHash(strategy, ip) /\ n > 0
        hashes == IF ~hashed THEN {0}
                  ELSE IF ip \in DOMAIN hashOf THEN {hashOf[ip]}
                  ELSE HashValues
    IN  \E r \in draws, h \in hashes :
          LET res == select_instance(services, load_balancer_state,
                                     s, strategy, ip, r, h) IN
          /\ CountersWithin(res[2], cap)
          /\ selRet' = res[1]
          /\ selSvc' = s
          /\ load_balancer_state' = res[2]
          /\ hashOf' = IF hashed THEN Put(hashOf, ip, h) ELSE hashOf
          /\ UNCHANGED <<services, circuit_breakers, request_history,
                         callRet, statsRet, regs, updates>>
          /\ op' = "select_instance"
          /\ UNCHANGED <<hcVars, routeVars, lbVars, lastReg, cbVars, clockVars, thVars>>

\* ServiceRegistry.select_instance
SelectInstance(s, strategy, ip) ==
    SelectInstanceWithin(s, strategy, ip, MaxWeighted)

\* the position of the first instance with the given id, or 0
IndexOfId(instances, i) ==
    IF \E k \in 1..Len(instances) : instances[k].id = i
    THEN CHOOSE k \in 1..Len(instances) :
            /\ instances[k].id = i
            /\ \A j \in 1..(k - 1) : instances[j].id # i
    ELSE 0

\* deque(maxlen=HistoryMaxLen).append
DequeAppend(q, e) ==
    LET q1 == Append(q, e) IN
    IF Len(q1) > HistoryMaxLen THEN Tail(q1) ELSE q1

\* update_instance_metrics, lines 435-438: the moving average, in 1/RtScale ms
moving_average(old, sample) ==
    IF old = 0 THEN sample * RtScale
    ELSE (old * 9 + sample * RtScale) \div 10

\* update_instance_metrics, lines 449-452: the requests of the last 5 minutes
recent_requests(history, t) ==
    LET Recent(req) == TimedeltaSeconds(t - req.timestamp) < ErrorWindow
    IN  SelectSeq(history, Recent)

\* update_instance_metrics, lines 454-456: error_rate as failed/total * 100
error_rate_of(recent, old) ==
    IF recent = <<>> THEN old
    ELSE LET Failed(req) == ~req.success IN
         [failed |-> Len(SelectSeq(recent, Failed)), total |-> Len(recent)]

\* ServiceRegistry.update_instance_metrics
UpdateInstanceMetrics(s, i, response_time, success) ==
    LET instances == Get(services, s, <<>>)
        k == IndexOfId(instances, i)
        key == <<s, i>>
        history == DequeAppend(Get(request_history, key, <<>>),
                               [timestamp |-> now, success |-> success,
                                response_time |-> response_time])
    IN
    /\ updates < MaxUpdates
    /\ IF k = 0
       THEN UNCHANGED <<services, request_history>>
       ELSE /\ request_history' = Put(request_history, key, history)
            /\ services' = [services EXCEPT ![s][k] =
                  [@ EXCEPT !.response_time =
                                moving_average(@, response_time),
                            !.error_rate =
                                error_rate_of(recent_requests(history, now), @)]]
    /\ updates' = updates + 1
    /\ op' = "update_instance_metrics"
    /\ UNCHANGED <<circuit_breakers, load_balancer_state, hashOf, selRet,
                   selSvc, callRet, statsRet, regs>>
    /\ UNCHANGED <<hcVars, routeVars, lbVars, lastReg, cbVars, clockVars, thVars, rrVars>>

\* CircuitBreaker.call on the registry's breaker of service s, with a func
\* that returns (ok) or raises (~ok)
BreakerCall(s, ok) ==
    /\ s \in DOMAIN circuit_breakers
    /\ circuit_breakers[s].failure_count < MaxFailureCount
    /\ circuit_breakers' = [circuit_breakers EXCEPT
                              ![s] = call_state(@, now, ok)]
    /\ callRet' = IF call_rejects(circuit_breakers[s], now) THEN "rejected"
                  ELSE IF ok THEN "returned" ELSE "raised"
    /\ op' = "call"
    /\ UNCHANGED <<services, load_balancer_state, request_history, hashOf,
                   selRet, selSvc, statsRet, regs, updates>>
    /\ UNCHANGED <<hcVars, routeVars, lbVars, lastReg, cbVars, clockVars, thVars, rrVars>>

\* ServiceRegistry.get_service_stats
GetServiceStats(s) ==
    /\ statsRet' = get_service_stats(services, s)
    /\ op' = "get_service_stats"
    /\ UNCHANGED <<services, circuit_breakers, load_balancer_state,
                   request_history, hashOf, selRet, selSvc, callRet, regs,
                   updates>>
    /\ UNCHANGED <<hcVars, routeVars, lbVars, lastReg, cbVars, clockVars,
                   thVars, rrVars>>

(***************************************************************************)
(* routing_system.py : select_instance(service, ROUND_ROBIN) called from   *)
(* several request threads.  get_healthy_instances runs under the          *)
(* registry's RLock; _round_robin_select runs without it.                  *)
(***************************************************************************)
\* the sum of f over the set S
RECURSIVE SumOver(_, _)
SumOver(f, S) ==
    IF S = {} THEN 0
    ELSE LET x == CHOOSE y \in S : TRUE IN f[x] + SumOver(f, S \ {x})

\* the select_instance calls that have started
StartedSelections ==
    SumOver(retCount, InstanceIds)
      + Cardinality({t \in Threads : pc[t] # "idle"})

\* a request thread calls select_instance(s, ROUND_ROBIN)
SelCall(t) ==
    /\ pc[t] = "idle"
    /\ StartedSelections < MaxSelects
    /\ pc' = [pc EXCEPT ![t] = "sel_healthy"]
    /\ UNCHANGED <<load_balancer_state, tmp, snap, retCount, selRet, selSvc>>

\* select_instance, lines 358-362: get_healthy_instances and the empty test
SelHealthy(t, s) ==
    LET healthy == get_healthy_instances(services, s) IN
    /\ pc[t] = "sel_healthy"
    /\ snap' = [snap EXCEPT ![t] = healthy]
    /\ IF healthy = <<>>
       THEN /\ pc' = [pc EXCEPT ![t] = "idle"]
            /\ selRet' = NoInstance
            /\ selSvc' = s
       ELSE /\ pc' = [pc EXCEPT ![t] = "rr_check"]
            /\ UNCHANGED <<selRet, selSvc>>
    /\ UNCHANGED <<load_balancer_state, tmp, retCount>>

\* _round_robin_select, line 380: the test; load_balancer_state[s] creates
\* the service's dict
RrCheck(t, s) ==
    LET st0 == Get(load_balancer_state, s, EmptyLB) IN
    /\ pc[t] = "rr_check"
    /\ load_balancer_state' = Put(load_balancer_state, s, st0)
    /\ pc' = [pc EXCEPT ![t] = IF st0.round_robin_index = None
                                THEN "rr_zero" ELSE "rr_read"]
    /\ UNCHANGED <<tmp, snap, retCount, selRet, selSvc>>

\* _round_robin_select, line 381: round_robin_index = 0
RrZero(t, s) ==
    /\ pc[t] = "rr_zero"
    /\ load_balancer_state' =
          [load_balancer_state EXCEPT ![s].round_robin_index = 0]
    /\ pc' = [pc EXCEPT ![t] = "rr_read"]
    /\ UNCHANGED <<tmp, snap, retCount, selRet, selSvc>>

\* _round_robin_select, line 383: index = round_robin_index
RrRead(t, s) ==
    /\ pc[t] = "rr_read"
    /\ tmp' = [tmp EXCEPT ![t] = load_balancer_state[s].round_robin_index]
    /\ pc' = [pc EXCEPT ![t] = "rr_write"]
    /\ UNCHANGED <<load_balancer_state, snap, retCount, selRet, selSvc>>

\* _round_robin_select, line 385: round_robin_index = (index + 1) % len
RrWrite(t, s) ==
    /\ pc[t] = "rr_write"
    /\ load_balancer_state' =
          [load_balancer_state EXCEPT
             ![s].round_robin_index = (tmp[t] + 1) % Len(snap[t])]
    /\ pc' = [pc EXCEPT ![t] = "rr_return"]
    /\ UNCHANGED <<tmp, snap, retCount, selRet, selSvc>>

\* _round_robin_select, lines 384 and 387: return instances[index % len]
RrReturn(t, s) ==
    LET selected == snap[t][(tmp[t] % Len(snap[t])) + 1] IN
    /\ pc[t] = "rr_return"
    /\ selRet' = selected
    /\ selSvc' = s
    /\ retCount' = [retCount EXCEPT ![selected.id] = @ + 1]
    /\ pc' = [pc EXCEPT ![t] = "idle"]
    /\ tmp' = [tmp EXCEPT ![t] = 0]
    /\ snap' = [snap EXCEPT ![t] = <<>>]
    /\ UNCHANGED load_balancer_state

\* one statement of one request thread selecting for service s
SelStep(t, s) ==
    /\ \/ SelCall(t) \/ SelHealthy(t, s) \/ RrCheck(t, s) \/ RrZero(t, s)
       \/ RrRead(t, s) \/ RrWrite(t, s) \/ RrReturn(t, s)
    /\ UNCHANGED <<services, circuit_breakers, request_history, hashOf,
                   callRet, statsRet, regs, updates, rrVars>>
    /\ UNCHANGED <<hcVars, routeVars, lbVars, lastReg, op, cbVars, clockVars, lock, stamp, tret, lin, linRet, gs>>

\* the instances are registered before the request threads start
Startup(s) ==
    /\ StartedSelections = 0
    /\ \E i \in InstanceIds, st \in {"healthy", "unhealthy"} :
          RegisterService(s, NewInstance(i, st))
    /\ UNCHANGED lastReg

(***************************************************************************)
(* routing_system.py : route rules.  A str is the sequence of its          *)
(* characters.                                                             *)
(***************************************************************************)
\* str.startswith
StartsWith(str, prefix) ==
    /\ Len(prefix) <= Len(str)
    /\ SubSeq(str, 1, Len(prefix)) = prefix

\* str.endswith
EndsWith(str, suffix) ==
    /\ Len(suffix) <= Len(str)
    /\ SubSeq(str, Len(str) - Len(suffix) + 1, Len(str)) = suffix

\* str.rstrip(ch): every trailing ch removed
RECURSIVE RStrip(_, _)
RStrip(str, ch) ==
    IF str # <<>> /\ str[Len(str)] = ch
    THEN RStrip(SubSeq(str, 1, Len(str) - 1), ch)
    ELSE str

\* the positions of '*' in a pattern; pattern.split('*') has one part more
StarsOf(pattern) == {k \in 1..Len(pattern) : pattern[k] = "*"}

\* a _pattern_matches that removes one trailing slash only
pattern_matches_strips_one(pattern, path) ==
    IF Cardinality(StarsOf(pattern)) = 1
    THEN LET k == CHOOSE j \in StarsOf(pattern) : TRUE
             prefix == SubSeq(pattern, 1, k - 1)
             suffix == SubSeq(pattern, k + 1, Len(pattern))
         IN  StartsWith(path, prefix) /\ EndsWith(path, suffix)
    ELSE IF pattern # <<>> /\ pattern[Len(pattern)] = "/"
    THEN StartsWith(path, SubSeq(pattern, 1, Len(pattern) - 1))
    ELSE pattern = path

\* ServiceRegistry._pattern_matches
pattern_matches(pattern, path) ==
    IF Cardinality(StarsOf(pattern)) = 1
    THEN LET k == CHOOSE j \in StarsOf(pattern) : TRUE
             prefix == SubSeq(pattern, 1, k - 1)
             suffix == SubSeq(pattern, k + 1, Len(pattern))
         IN  StartsWith(path, prefix) /\ EndsWith(path, suffix)
    ELSE IF pattern # <<>> /\ pattern[Len(pattern)] = "/"
    THEN StartsWith(path, RStrip(pattern, "/"))
    ELSE pattern = path

\* the characters of patterns and paths: the separator, the wildcard and
\* two letters
PatChars == {"/", "*", "a"}
PathChars == {"/", "a", "b"}

\* every str over chars of length up to n
Strings(chars, n) == UNION {[1..k -> chars] : k \in 0..n}

\* "/a/*/a" and "/a/b/" stand for "/api/*/read" and "/api/auth/"
ExamplePatterns == {<<"/", "a", "/", "*", "/", "a">>,
                    <<"/", "a", "/", "b", "/">>}

\* "/a/b/a", "/a/b/b/a" and "/a/b/" stand for "/api/foo/read" (and
\* "/api/auth/login"), "/api/foo/bar/read" and "/api/auth/"
ExamplePaths == {<<"/", "a", "/", "b", "/", "a">>,
                 <<"/", "a", "/", "b", "/", "b", "/", "a">>,
                 <<"/", "a", "/", "b", "/">>}

\* the patterns callers register ("" included) and the paths they look up
RoutePatterns == {<<"/", "a", "/">>, <<"/", "a", "/", "b">>,
                  <<"/", "*", "/", "b">>, <<>>}
RoutePaths == {<<"/", "a", "/", "b">>, <<"/", "a", "/", "a">>,
               <<"/", "b", "/", "b">>, <<"/", "a">>, <<"/", "b">>, <<>>}

\* the RouteRule objects callers register, told apart by their service_name
Rules == {[service_name |-> s] : s \in ServiceNames}

\* the patterns and paths _pattern_matches is applied to
MatchInputs ==
    [pattern : Strings(PatChars, MaxPatLen) \cup ExamplePatterns,
     path : Strings(PathChars, MaxPathLen) \cup ExamplePaths]

\* no pattern and no path passed yet
NoArgs == [pattern |-> <<>>, path |-> <<>>]

\* route_rules[key] = value that moves a key set again to the end
DictSet_moves(items, key, value) ==
    LET Other(item) == item.key # key
    IN  Append(SelectSeq(items, Other), [key |-> key, value |-> value])

\* route_rules[key] = value on the dict's items: a new key goes to the end,
\* a key set again keeps its position
DictSet(items, key, value) ==
    IF \E k \in 1..Len(items) : items[k].key = key
    THEN [k \in 1..Len(items) |->
             IF items[k].key = key THEN [key |-> key, value |-> value]
             ELSE items[k]]
    ELSE Append(items, [key |-> key, value |-> value])

\* ServiceRegistry.find_route_rule on the dict's items
find_route_rule(items, path) ==
    LET exact == {k \in 1..Len(items) : items[k].key = path}
        matching == {k \in 1..Len(items) : pattern_matches(items[k].key, path)}
    IN  IF exact # {}
        THEN items[CHOOSE k \in exact : TRUE].value
        ELSE IF matching # {}
        THEN items[CHOOSE k \in matching : \A j \in matching : k <= j].value
        ELSE NoRule

\* ServiceRegistry._pattern_matches applied to the arguments under study
PatternMatches ==
    /\ op = "init"
    /\ matchRet' = pattern_matches(routeArg.pattern, routeArg.path)
    /\ op' = "_pattern_matches"
    /\ UNCHANGED <<route_rules, routeArg, routeRet, addRet, firstAdded,
                   latestRule>>
    /\ UNCHANGED <<hcVars, cbVars, clockVars, thVars, regVars, rrVars, lbVars, lastReg>>

\* ServiceRegistry.add_route_rule
AddRouteRule(pattern, rule) ==
    /\ route_rules' = DictSet(route_rules, pattern, rule)
    /\ routeArg' = [pattern |-> pattern, path |-> <<>>]
    /\ addRet' = "None"
    /\ firstAdded' = IF \E k \in 1..Len(firstAdded) : firstAdded[k] = pattern
                     THEN firstAdded ELSE Append(firstAdded, pattern)
    /\ latestRule' = Put(latestRule, pattern,
                          [rule |-> rule, again |-> pattern \in DOMAIN latestRule])
    /\ op' = "add_route_rule"
    /\ UNCHANGED <<routeRet, matchRet>>
    /\ UNCHANGED <<hcVars, cbVars, clockVars, thVars, regVars, rrVars, lbVars, lastReg>>

\* ServiceRegistry.find_route_rule
FindRouteRule(path) ==
    /\ routeRet' = find_route_rule(route_rules, path)
    /\ routeArg' = [pattern |-> <<>>, path |-> path]
    /\ op' = "find_route_rule"
    /\ UNCHANGED <<route_rules, addRet, matchRet, firstAdded, latestRule>>
    /\ UNCHANGED <<hcVars, cbVars, clockVars, thVars, regVars, rrVars, lbVars, lastReg>>

(***************************************************************************)
(* utils/load_balancer.py : LoadBalancer                                   *)
(***************************************************************************)
\* the URLs a LoadBalancer is configured with
Urls == {"u1", "u2", "u3"}

\* the lists passed to LoadBalancer(service_urls), the empty one included
UrlLists == UNION {[1..n -> Urls] : n \in 0..MaxUrls}

\* no LoadBalancer constructed yet
NoLoadBalancer == [src |-> <<>>, pos |-> -1, saved |-> <<>>, idx |-> 0]

\* itertools.cycle(iterable): the iterator over the list, nothing consumed,
\* nothing saved
cycle(urls) == [src |-> urls, pos |-> 0, saved |-> <<>>, idx |-> 0]

\* a cycle that replays its saved items from the second one
cycle_next_skips(c) ==
    IF c.pos < Len(c.src)
    THEN <<c.src[c.pos + 1],
           [c EXCEPT !.pos = @ + 1, !.saved = Append(@, c.src[c.pos + 1])]>>
    ELSE IF c.saved = <<>>
    THEN <<"StopIteration", c>>
    ELSE <<c.saved[((c.idx + 1) % Len(c.saved)) + 1],
           [c EXCEPT !.idx = (@ + 1) % Len(c.saved)]>>

\* next(cycle): <<returned item, cycle>>.  While the source iterator has
\* items it yields them and saves a copy; once it is exhausted it replays
\* the saved items in order, for ever; with nothing saved it raises
\* StopIteration
cycle_next(c) ==
    IF c.pos < Len(c.src)
    THEN <<c.src[c.pos + 1],
           [c EXCEPT !.pos = @ + 1, !.saved = Append(@, c.src[c.pos + 1])]>>
    ELSE IF c.saved = <<>>
    THEN <<"StopIteration", c>>
    ELSE <<c.saved[c.idx + 1],
           [c EXCEPT !.idx = (@ + 1) % Len(c.saved)]>>

\* LoadBalancer.__init__
LoadBalancerNew(urls) ==
    /\ service_urls = NoLoadBalancer
    /\ service_urls' = cycle(urls)
    /\ lbUrls' = urls
    /\ op' = "LoadBalancer"
    /\ UNCHANGED <<lbK, lbRet>>
    /\ UNCHANGED <<hcVars, cbVars, clockVars, thVars, regVars, rrVars, routeVars,
                   lastReg>>

\* LoadBalancer.get_next_service_url
GetNextServiceUrl ==
    /\ service_urls # NoLoadBalancer
    /\ lbK < MaxLbCalls
    /\ lbRet' = cycle_next(service_urls)[1]
    /\ service_urls' = cycle_next(service_urls)[2]
    /\ lbK' = lbK + 1
    /\ op' = "get_next_service_url"
    /\ UNCHANGED lbUrls
    /\ UNCHANGED <<hcVars, cbVars, clockVars, thVars, regVars, rrVars, routeVars,
                   lastReg>>

(***************************************************************************)
(* health_checker.py : HealthChecker                                       *)
(***************************************************************************)
\* check_all_services keeps the last 100 results of a service
HealthHistoryMax == 100

\* the services_config dicts a HealthChecker is constructed with, as their
\* keys in dict order
Configs == {<<>>, <<"s1">>, <<"s1", "s2">>}

\* service_name in self.services_config
Configured(config) == {config[k] : k \in 1..Len(config)}

\* what requests.get does: it returns a response with a status code and a
\* body that response.json() can or cannot parse, or it raises Timeout,
\* ConnectionError or another exception
Probes ==
    {[kind |-> "response", code |-> 200, json |-> TRUE],
     [kind |-> "response", code |-> 200, json |-> FALSE],
     [kind |-> "response", code |-> 503, json |-> TRUE],
     [kind |-> "Timeout", code |-> 0, json |-> FALSE],
     [kind |-> "ConnectionError", code |-> 0, json |-> FALSE],
     [kind |-> "Exception", code |-> 0, json |-> FALSE]}

\* f"HTTP {response.status_code}"
HttpMessage(code) == IF code = 503 THEN "HTTP 503" ELSE "HTTP other"

\* str(e) of an exception that is neither Timeout nor ConnectionError
ExceptionText == "str(e)"

\* HealthCheckResult(...)
HealthCheckResult(s, status, response_time, t, error_message, details) ==
    [service_name |-> s, status |-> status, response_time |-> response_time,
     timestamp |-> t, error_message |-> error_message, details |-> details]

\* a breaker test that never refuses
refuses_never(b, t) == FALSE

\* check_service_health, line 180: `not circuit_breaker.can_execute()`
refuses(b, t) == ~can_execute_ret(b, t)

\* an error message that does not tell a timeout from a connection error
error_message_of_vague(probe) ==
    CASE probe.kind = "response" -> HttpMessage(probe.code)
      [] probe.kind = "Timeout" -> "Connection error"
      [] probe.kind = "ConnectionError" -> "Connection error"
      [] OTHER -> ExceptionText

\* check_service_health, lines 225, 235, 245, 255: the error message of a
\* probe that did not return 200
error_message_of(probe) ==
    CASE probe.kind = "response" -> HttpMessage(probe.code)
      [] probe.kind = "Timeout" -> "Request timeout"
      [] probe.kind = "ConnectionError" -> "Connection error"
      [] OTHER -> ExceptionText

\* HealthChecker.check_service_health: the result it returns, the breaker
\* of the service as it leaves it, whether it issued the probe and which
\* outcome it recorded on the breaker
check_service_health(config, breakers, s, probe, rt, t) ==
    IF s \notin Configured(config)
    THEN [result |-> HealthCheckResult(s, "unknown", 0, t,
                                       "Service not configured", "None"),
          breakers |-> breakers, probed |-> FALSE, recorded |-> "none"]
    ELSE
    LET b == can_execute_state(breakers[s], t) IN
    IF refuses(breakers[s], t)
    THEN [result |-> HealthCheckResult(s, "unhealthy", 0, t,
                                       "Circuit breaker open", b.state),
          breakers |-> [breakers EXCEPT ![s] = b],
          probed |-> FALSE, recorded |-> "none"]
    ELSE IF probe.kind = "response" /\ probe.code = 200
    THEN [result |-> HealthCheckResult(s, "healthy", rt, t, "None",
                        IF probe.json THEN "json" ELSE "{}"),
          breakers |-> [breakers EXCEPT ![s] = record_success(b)],
          probed |-> TRUE, recorded |-> "success"]
    ELSE [result |-> HealthCheckResult(s, "unhealthy", rt, t,
                                       error_message_of(probe), "None"),
          breakers |-> [breakers EXCEPT ![s] = record_failure(b, t)],
          probed |-> TRUE, recorded |-> "failure"]

\* a result as an entry of a history; seq is its number among the appends
\* to that history (history)
Entry(result, n) == [seq |-> n] @@ result

\* check_all_services, lines 267-271: append, then keep the last 100
history_append(history, result) ==
    LET h == Append(history, result) IN
    IF Len(h) > HealthHistoryMax
    THEN SubSeq(h, Len(h) - HealthHistoryMax + 1, Len(h))
    ELSE h

\* HealthChecker.check_all_services on the first k services of the config:
\* the results, the breakers, the histories, the numbers of appends, and
\* the numbers of probes issued and of outcomes recorded
RECURSIVE check_all_services(_, _, _, _, _, _, _, _)
check_all_services(config, breakers, histories, counts, probeOf, rt, t, k) ==
    IF k = 0
    THEN [results |-> EmptyDict, breakers |-> breakers,
          histories |-> histories, counts |-> counts, probed |-> 0,
          success |-> 0, failure |-> 0]
    ELSE LET before == check_all_services(config, breakers, histories,
                                          counts, probeOf, rt, t, k - 1)
             s == config[k]
             c == check_service_health(config, before.breakers, s,
                                       probeOf[s], rt, t)
         IN  [results |-> Put(before.results, s, c.result),
              breakers |-> c.breakers,
              histories |-> [before.histories EXCEPT
                  ![s] = history_append(@, Entry(c.result,
                                                 before.counts[s] + 1))],
              counts |-> [before.counts EXCEPT ![s] = @ + 1],
              probed |-> before.probed + IF c.probed THEN 1 ELSE 0,
              success |-> before.success +
                            IF c.recorded = "success" THEN 1 ELSE 0,
              failure |-> before.failure +
                            IF c.recorded = "failure" THEN 1 ELSE 0]

\* a status lookup that reads the oldest entry
get_service_status_oldest(histories, s) ==
    LET history == Get(histories, s, <<>>) IN
    IF history = <<>> THEN "unknown" ELSE history[1].status

\* HealthChecker.get_service_status
get_service_status(histories, s) ==
    LET history == Get(histories, s, <<>>) IN
    IF history = <<>> THEN "unknown" ELSE history[Len(history)].status

\* HealthChecker.is_service_healthy
is_service_healthy(histories, s) == get_service_status(histories, s) = "healthy"

\* HealthChecker.get_healthy_services
get_healthy_services(config, histories) ==
    LET Healthy(s) == is_service_healthy(histories, s)
    IN  SelectSeq(config, Healthy)

\* history[-n:]
LastN(history, n) ==
    IF Len(history) > n
    THEN SubSeq(history, Len(history) - n + 1, Len(history))
    ELSE history

\* get_health_summary looks at the last 10 results of a service
SummaryWindow == 10

\* the sum of the response times of a list of results
RECURSIVE SumResponseTimes(_)
SumResponseTimes(results) ==
    IF results = <<>> THEN 0
    ELSE Head(results).response_time + SumResponseTimes(Tail(results))

\* get_health_summary, lines 309-315: per service with a HEALTHY result
\* among its last 10, their response times as sum / count
average_response_times(histories) ==
    LET IsHealthy(r) == r.status = "healthy"
        Recent(s) == SelectSeq(LastN(histories[s], SummaryWindow), IsHealthy)
        with == {s \in DOMAIN histories : Recent(s) # <<>>}
    IN  [s \in with |-> [sum |-> SumResponseTimes(Recent(s)),
                         count |-> Len(Recent(s))]]

\* HealthChecker.get_health_summary; health_percentage is kept as the
\* fraction healthy / total that the code multiplies by 100
get_health_summary(config, breakers, histories, t) ==
    LET total_services == Len(config)
        healthy_services == Len(get_healthy_services(config, histories))
    IN  [total_services |-> total_services,
         healthy_services |-> healthy_services,
         unhealthy_services |-> total_services - healthy_services,
         health_percentage |->
             IF total_services > 0
             THEN [healthy |-> healthy_services, total |-> total_services]
             ELSE [healthy |-> 0, total |-> 1],
         average_response_times |-> average_response_times(histories),
         circuit_breakers |-> breakers,
         last_check |-> t]

\* HealthChecker(services_config), before the checker is used
HealthCheckerNew(config) ==
    /\ op = "init"
    /\ services_config' = config
    /\ hc_circuit_breakers' = [s \in Configured(config) |-> CircuitBreakerInit]
    /\ health_history' = [s \in Configured(config) |-> <<>>]
    /\ running' = FALSE
    /\ check_thread' = None
    /\ hlock' = NoThread
    /\ appended' = [s \in Configured(config) |-> 0]
    /\ op' = "HealthChecker"
    /\ UNCHANGED <<hcArg, hcRet, probes, recorded, checks, cycles>>
    /\ UNCHANGED <<monVars, histVars, cbVars, clockVars, thVars, regVars,
                   rrVars, routeVars, lbVars, lastReg>>

\* a request handler calls check_service_health(s)
CheckServiceHealth(s, probe, rt) ==
    LET c == check_service_health(services_config, hc_circuit_breakers, s,
                                  probe, rt, now) IN
    /\ checks < MaxChecks
    /\ hcArg' = [name \in {s} |-> probe]
    /\ hcRet' = [name \in {s} |-> c.result]
    /\ hc_circuit_breakers' = c.breakers
    /\ probes' = probes + IF c.probed THEN 1 ELSE 0
    /\ recorded' = IF c.recorded = "none" THEN recorded
                   ELSE [recorded EXCEPT ![c.recorded] = @ + 1]
    /\ checks' = checks + 1
    /\ op' = "check_service_health"
    /\ UNCHANGED <<services_config, health_history, running, check_thread,
                   hlock, cycles, appended>>
    /\ UNCHANGED <<monVars, histVars, cbVars, clockVars, thVars, regVars,
                   rrVars, routeVars, lbVars, lastReg>>

\* a caller runs check_all_services(); probeOf gives what requests.get does
\* for each service; explored for maxCycles calls and maxChecks checks
CheckAllServicesWithin(probeOf, rt, maxCycles, maxChecks) ==
    LET c == check_all_services(services_config, hc_circuit_breakers,
                                health_history, appended, probeOf, rt, now,
                                Len(services_config)) IN
    /\ cycles < maxCycles
    /\ checks + Len(services_config) <= maxChecks
    /\ hcArg' = probeOf
    /\ hcRet' = c.results
    /\ hc_circuit_breakers' = c.breakers
    /\ health_history' = c.histories
    /\ appended' = c.counts
    /\ probes' = probes + c.probed
    /\ recorded' = [success |-> recorded.success + c.success,
                    failure |-> recorded.failure + c.failure]
    /\ checks' = checks + Len(services_config)
    /\ cycles' = cycles + 1
    /\ op' = "check_all_services"
    /\ UNCHANGED <<services_config, running, check_thread, hlock>>
    /\ UNCHANGED <<monVars, histVars, cbVars, clockVars, thVars, regVars,
                   rrVars, routeVars, lbVars, lastReg>>

\* HealthChecker.check_all_services
CheckAllServices(probeOf, rt) ==
    CheckAllServicesWithin(probeOf, rt, MaxCycles, MaxChecks)

\* a caller asks get_service_status(s)
GetServiceStatus(s) ==
    /\ hcArg' = s
    /\ hcRet' = get_service_status(health_history, s)
    /\ op' = "get_service_status"
    /\ UNCHANGED <<services_config, hc_circuit_breakers, health_history,
                   running, check_thread, hlock, probes, recorded, checks,
                   cycles, appended>>
    /\ UNCHANGED <<monVars, histVars, cbVars, clockVars, thVars, regVars,
                   rrVars, routeVars, lbVars, lastReg>>

\* a caller asks get_health_summary()
GetHealthSummary ==
    /\ hcArg' = "None"
    /\ hcRet' = get_health_summary(services_config, hc_circuit_breakers,
                                   health_history, now)
    /\ op' = "get_health_summary"
    /\ UNCHANGED <<services_config, hc_circuit_breakers, health_history,
                   running, check_thread, hlock, probes, recorded, checks,
                   cycles, appended>>
    /\ UNCHANGED <<monVars, histVars, cbVars, clockVars, thVars, regVars,
                   rrVars, routeVars, lbVars, lastReg>>

\* Python's history[-limit:]: the slice starts limit entries before the end
\* when limit > 0, at the beginning when limit = 0 (-0 is 0), and after
\* -limit entries when limit < 0
slice_from_minus(history, limit) ==
    LET n == Len(history)
        start == IF limit > 0
                 THEN (IF limit > n THEN 0 ELSE n - limit)
                 ELSE (IF -limit > n THEN n ELSE -limit)
    IN  SubSeq(history, start + 1, n)

\* get_service_history, lines 334-342: the dict made of one result
history_dict(result) ==
    [timestamp |-> result.timestamp, status |-> result.status,
     response_time |-> result.response_time,
     error_message |-> result.error_message, details |-> result.details]

\* HealthChecker.get_service_history
get_service_history(histories, s, limit) ==
    LET history == Get(histories, s, <<>>)
        recent_history == IF history # <<>>
                          THEN slice_from_minus(history, limit) ELSE <<>>
    IN  [k \in 1..Len(recent_history) |-> history_dict(recent_history[k])]

\* a caller asks get_service_history(s, limit)
GetServiceHistory(s, limit) ==
    /\ hcArg' = [service_name |-> s, limit |-> limit]
    /\ hcRet' = get_service_history(health_history, s, limit)
    /\ op' = "get_service_history"
    /\ UNCHANGED <<services_config, hc_circuit_breakers, health_history,
                   running, check_thread, hlock, probes, recorded, checks,
                   cycles, appended>>
    /\ UNCHANGED <<monVars, histVars, cbVars, clockVars, thVars, regVars,
                   rrVars, routeVars, lbVars, lastReg>>

\* start_monitoring(check_interval=30), seconds
CheckInterval == 30

\* the iterations a breaker needs after its last failure to close again: it
\* refuses until the recovery timeout has passed, then counts successes
RecoveryCycles == RecoveryTimeout \div CheckInterval + SuccessThreshold

\* the monitoring loop is explored for this many iterations
MonitorCycles == MaxFaultCycles + RecoveryCycles

\* _monitoring_loop, line 159, while self.running stays True: one
\* check_all_services() of the loop
MonitorCheck(probeOf, rt) ==
    /\ op \in {"HealthChecker", "time.sleep"}
    /\ CheckAllServicesWithin(probeOf, rt, MonitorCycles,
                              MonitorCycles * Len(services_config))

\* _monitoring_loop, line 160: time.sleep(check_interval)
MonitorSleep ==
    /\ op = "check_all_services"
    /\ now' = now + CheckInterval
    /\ op' = "time.sleep"
    /\ UNCHANGED <<hcVars, routeVars, lbVars, lastReg, cbVars, ticks, thVars,
                   regVars, rrVars>>

(***************************************************************************)
(* HealthChecker.check_all_services called from several threads (the       *)
(* monitoring thread and request handlers), statement by statement         *)
(***************************************************************************)
\* a lock that is always free to take
hlock_free_always(l) == TRUE

\* HealthChecker.lock: `with self.lock` proceeds only when no thread holds it
hlock_free(l) == l = NoThread

\* the probes of a healthy backend: every request returns 200 with a body
HealthyBackend == [s \in ServiceNames |->
                      [kind |-> "response", code |-> 200, json |-> TRUE]]

\* the number of history appends begun or pending
AppendsBegun ==
    SumOver(appended, DOMAIN appended)
      + Cardinality({t \in Threads : hpc[t] \in {"acquire", "append"}})

\* a thread calls check_all_services()
HistCall(t) ==
    /\ hpc[t] = "idle"
    /\ hidx' = [hidx EXCEPT ![t] = 1]
    /\ hpc' = [hpc EXCEPT ![t] = "check"]
    /\ UNCHANGED <<hres, hslice, hcState, hcCalls>>

\* lines 262-263: the next service of the loop is checked, or the call returns
HistCheck(t, probeOf, rt) ==
    /\ hpc[t] = "check"
    /\ IF hidx[t] > Len(services_config)
       THEN /\ hpc' = [hpc EXCEPT ![t] = "idle"]
            /\ UNCHANGED <<hres, hcState, hcCalls>>
       ELSE LET s == services_config[hidx[t]]
                c == check_service_health(services_config,
                        hc_circuit_breakers, s, probeOf[s], rt, now)
            IN  /\ AppendsBegun < MaxAppends
                /\ hres' = [hres EXCEPT ![t] = c.result]
                /\ hc_circuit_breakers' = c.breakers
                /\ probes' = probes + IF c.probed THEN 1 ELSE 0
                /\ recorded' = IF c.recorded = "none" THEN recorded
                               ELSE [recorded EXCEPT ![c.recorded] = @ + 1]
                /\ hpc' = [hpc EXCEPT ![t] = "acquire"]
                /\ UNCHANGED <<services_config, health_history, running,
                               check_thread, hlock, hcArg, hcRet, checks,
                               cycles, appended>>
    /\ UNCHANGED <<hidx, hslice>>

\* line 267: with self.lock
HistAcquire(t) ==
    /\ hpc[t] = "acquire"
    /\ hlock_free(hlock)
    /\ hlock' = t
    /\ hpc' = [hpc EXCEPT ![t] = "append"]
    /\ UNCHANGED <<hidx, hres, hslice, services_config, hc_circuit_breakers,
                   health_history, running, check_thread, hcCalls>>

\* line 268: self.health_history[service_name].append(result)
HistAppend(t) ==
    LET s == services_config[hidx[t]] IN
    /\ hpc[t] = "append"
    /\ health_history' = [health_history EXCEPT
                            ![s] = Append(@, Entry(hres[t], appended[s] + 1))]
    /\ appended' = [appended EXCEPT ![s] = @ + 1]
    /\ hpc' = [hpc EXCEPT ![t] = "len"]
    /\ UNCHANGED <<hidx, hres, hslice, services_config, hc_circuit_breakers,
                   running, check_thread, hlock, hcArg, hcRet, probes,
                   recorded, checks, cycles>>

\* line 270: if len(self.health_history[service_name]) > 100
HistLen(t) ==
    LET s == services_config[hidx[t]] IN
    /\ hpc[t] = "len"
    /\ hpc' = [hpc EXCEPT ![t] = IF Len(health_history[s]) > HealthHistoryMax
                                 THEN "slice" ELSE "release"]
    /\ UNCHANGED <<hidx, hres, hslice, hcState, hcCalls>>

\* line 271, right-hand side: self.health_history[service_name][-100:]
HistSlice(t) ==
    LET s == services_config[hidx[t]] IN
    /\ hpc[t] = "slice"
    /\ hslice' = [hslice EXCEPT ![t] = LastN(health_history[s], HealthHistoryMax)]
    /\ hpc' = [hpc EXCEPT ![t] = "assign"]
    /\ UNCHANGED <<hidx, hres, hcState, hcCalls>>

\* line 271, assignment: self.health_history[service_name] = ...
HistAssign(t) ==
    LET s == services_config[hidx[t]] IN
    /\ hpc[t] = "assign"
    /\ health_history' = [health_history EXCEPT ![s] = hslice[t]]
    /\ hslice' = [hslice EXCEPT ![t] = <<>>]
    /\ hpc' = [hpc EXCEPT ![t] = "release"]
    /\ UNCHANGED <<hidx, hres, services_config, hc_circuit_breakers, running,
                   check_thread, hlock, hcCalls>>

\* the with block ends and the loop moves to the next service
HistRelease(t) ==
    /\ hpc[t] = "release"
    /\ hlock' = NoThread
    /\ hidx' = [hidx EXCEPT ![t] = @ + 1]
    /\ hpc' = [hpc EXCEPT ![t] = "check"]
    /\ UNCHANGED <<hres, hslice, services_config, hc_circuit_breakers,
                   health_history, running, check_thread, hcCalls>>

\* one statement of one thread inside check_all_services
HistStep(t, probeOf, rt) ==
    /\ \/ HistCall(t) \/ HistCheck(t, probeOf, rt) \/ HistAcquire(t)
       \/ HistAppend(t) \/ HistLen(t) \/ HistSlice(t) \/ HistAssign(t)
       \/ HistRelease(t)
    /\ op' = "check_all_services"
    /\ UNCHANGED <<monVars, cbVars, clockVars, thVars, regVars, rrVars,
                   routeVars, lbVars, lastReg>>

(***************************************************************************)
(* HealthChecker.start_monitoring, stop_monitoring and _monitoring_loop,   *)
(* statement by statement: controllers are the threads that call start and *)
(* stop, loops are the threading.Thread objects start_monitoring creates   *)
(***************************************************************************)
\* the threads that call start_monitoring and stop_monitoring
Controllers == {"c1", "c2"}

\* the Thread objects start_monitoring can create
LoopIds == 1..MaxLoops

\* the loops that were started and have not exited
LiveLoops == {i \in LoopIds : loopPc[i] \in {"while", "cycle", "sleep", "except"}}

\* Thread.join() returns once the thread has terminated
join_returns(p) == p = "exited"

\* a handler that catches nothing
except_catches_nothing(kind) == FALSE

\* _monitoring_loop, line 161: `except Exception` catches what
\* check_all_services raises
except_catches(kind) == kind = "Exception"

\* a controller calls start_monitoring()
StartCall(c) ==
    /\ ctlPc[c] = "idle"
    /\ ctlCalls < MaxCalls
    /\ ctlCalls' = ctlCalls + 1
    /\ ctlPc' = [ctlPc EXCEPT ![c] = "start_test"]
    /\ op' = "start_monitoring"
    /\ UNCHANGED <<running, check_thread, loopPc, ctlThread, loopVars>>

\* lines 136-138: if self.running: return
StartTest(c) ==
    /\ ctlPc[c] = "start_test"
    /\ ctlPc' = [ctlPc EXCEPT ![c] = IF running THEN "idle" ELSE "start_set"]
    /\ op' = IF running THEN "start_monitoring: already running"
             ELSE "start_monitoring"
    /\ UNCHANGED <<running, check_thread, loopPc, ctlThread, ctlCalls,
                   loopVars>>

\* line 139: self.running = True
StartSet(c) ==
    /\ ctlPc[c] = "start_set"
    /\ running' = TRUE
    /\ ctlPc' = [ctlPc EXCEPT ![c] = "start_new"]
    /\ op' = "start_monitoring"
    /\ UNCHANGED <<check_thread, loopPc, ctlThread, ctlCalls, loopVars>>

\* lines 140-144: self.check_thread = threading.Thread(...)
StartNew(c) ==
    /\ ctlPc[c] = "start_new"
    /\ \E i \in LoopIds :
          /\ loopPc[i] = "unborn"
          /\ \A j \in LoopIds : j < i => loopPc[j] # "unborn"
          /\ loopPc' = [loopPc EXCEPT ![i] = "created"]
          /\ check_thread' = i
    /\ ctlPc' = [ctlPc EXCEPT ![c] = "start_start"]
    /\ op' = "start_monitoring"
    /\ UNCHANGED <<running, ctlThread, ctlCalls, loopVars>>

\* line 145: self.check_thread.start(); a thread that was started before
\* raises RuntimeError
StartStart(c) ==
    /\ ctlPc[c] = "start_start"
    /\ IF loopPc[check_thread] = "created"
       THEN /\ loopPc' = [loopPc EXCEPT ![check_thread] = "while"]
            /\ op' = "start_monitoring: started"
       ELSE /\ UNCHANGED loopPc
            /\ op' = "start_monitoring: RuntimeError"
    /\ ctlPc' = [ctlPc EXCEPT ![c] = "idle"]
    /\ UNCHANGED <<running, check_thread, ctlThread, ctlCalls, loopVars>>

\* a controller calls stop_monitoring(); line 150: self.running = False
StopSet(c) ==
    /\ ctlPc[c] = "idle"
    /\ ctlCalls < MaxCalls
    /\ ctlCalls' = ctlCalls + 1
    /\ running' = FALSE
    /\ liveAtStop' = [liveAtStop EXCEPT ![c] = LiveLoops]
    /\ ctlPc' = [ctlPc EXCEPT ![c] = "stop_if"]
    /\ op' = "stop_monitoring"
    /\ UNCHANGED <<check_thread, loopPc, ctlThread, loopCycles, loopDone,
                   loopRaised>>

\* line 151: if self.check_thread
StopIf(c) ==
    /\ ctlPc[c] = "stop_if"
    /\ ctlPc' = [ctlPc EXCEPT ![c] = IF check_thread # None
                                     THEN "stop_read" ELSE "idle"]
    /\ op' = IF check_thread # None THEN "stop_monitoring"
             ELSE "stop_monitoring: returned"
    /\ UNCHANGED <<running, check_thread, loopPc, ctlThread, ctlCalls,
                   loopVars>>

\* line 152: self.check_thread is read for the call of join
StopRead(c) ==
    /\ ctlPc[c] = "stop_read"
    /\ ctlThread' = [ctlThread EXCEPT ![c] = check_thread]
    /\ ctlPc' = [ctlPc EXCEPT ![c] = "stop_join"]
    /\ op' = "stop_monitoring"
    /\ UNCHANGED <<running, check_thread, loopPc, ctlCalls, loopVars>>

\* line 152: join() waits for the thread to terminate; joining a thread that
\* was not started raises RuntimeError
StopJoin(c) ==
    /\ ctlPc[c] = "stop_join"
    /\ IF loopPc[ctlThread[c]] = "created"
       THEN op' = "stop_monitoring: RuntimeError"
       ELSE /\ join_returns(loopPc[ctlThread[c]])
            /\ op' = "stop_monitoring: returned"
    /\ ctlPc' = [ctlPc EXCEPT ![c] = "idle"]
    /\ UNCHANGED <<running, check_thread, loopPc, ctlThread, ctlCalls,
                   loopVars>>

\* one statement of a controller
CtlStep(c) ==
    /\ \/ StartCall(c) \/ StartTest(c) \/ StartSet(c) \/ StartNew(c)
       \/ StartStart(c) \/ StopSet(c) \/ StopIf(c) \/ StopRead(c)
       \/ StopJoin(c)
    /\ UNCHANGED <<services_config, hc_circuit_breakers, health_history,
                   hlock, hcCalls, histVars>>
    /\ UNCHANGED <<cbVars, clockVars, thVars, regVars, rrVars, routeVars,
                   lbVars, lastReg>>

\* line 157: while self.running
LoopTest(i) ==
    /\ loopPc[i] = "while"
    /\ IF running
       THEN /\ loopCycles < MaxLoopCycles
            /\ loopCycles' = loopCycles + 1
            /\ loopPc' = [loopPc EXCEPT ![i] = "cycle"]
            /\ op' = "_monitoring_loop: cycle"
       ELSE /\ loopPc' = [loopPc EXCEPT ![i] = "exited"]
            /\ op' = "_monitoring_loop: exited"
            /\ UNCHANGED loopCycles
    /\ UNCHANGED <<hcState, hcCalls, loopDone, loopRaised>>

\* line 159: self.check_all_services() returns
LoopCheckAll(i, probeOf, rt) ==
    LET c == check_all_services(services_config, hc_circuit_breakers,
                                health_history, appended, probeOf, rt, now,
                                Len(services_config)) IN
    /\ loopPc[i] = "cycle"
    /\ hc_circuit_breakers' = c.breakers
    /\ health_history' = c.histories
    /\ appended' = c.counts
    /\ probes' = probes + c.probed
    /\ recorded' = [success |-> recorded.success + c.success,
                    failure |-> recorded.failure + c.failure]
    /\ loopDone' = loopDone + 1
    /\ loopPc' = [loopPc EXCEPT ![i] = "sleep"]
    /\ op' = "_monitoring_loop: checked"
    /\ UNCHANGED <<services_config, running, check_thread, hlock, hcArg,
                   hcRet, checks, cycles, loopCycles, loopRaised>>

\* line 159: self.check_all_services() raises; an exception the handler
\* does not catch ends the thread
LoopRaise(i, kind) ==
    /\ loopPc[i] = "cycle"
    /\ loopRaised' = loopRaised + 1
    /\ loopPc' = [loopPc EXCEPT ![i] = IF except_catches(kind)
                                       THEN "except" ELSE "exited"]
    /\ op' = "_monitoring_loop: raised"
    /\ UNCHANGED <<hcState, hcCalls, loopCycles, loopDone>>

\* line 160: time.sleep(check_interval) is over
LoopSleep(i) ==
    /\ loopPc[i] = "sleep"
    /\ loopPc' = [loopPc EXCEPT ![i] = "while"]
    /\ op' = "_monitoring_loop: slept"
    /\ UNCHANGED <<hcState, hcCalls, loopCycles, loopDone, loopRaised>>

\* lines 162-163: the error is logged and time.sleep(5) is over
LoopExcept(i) ==
    /\ loopPc[i] = "except"
    /\ loopPc' = [loopPc EXCEPT ![i] = "while"]
    /\ op' = "_monitoring_loop: handled"
    /\ UNCHANGED <<hcState, hcCalls, loopCycles, loopDone, loopRaised>>

\* one step of a monitoring-loop thread
LoopStep(i, probeOf, rt) ==
    /\ \/ LoopTest(i) \/ LoopCheckAll(i, probeOf, rt)
       \/ LoopRaise(i, "Exception") \/ LoopSleep(i) \/ LoopExcept(i)
    /\ UNCHANGED <<ctlPc, ctlThread, ctlCalls, liveAtStop, histVars>>
    /\ UNCHANGED <<cbVars, clockVars, thVars, regVars, rrVars, routeVars,
                   lbVars, lastReg>>

\* the state after ServiceRegistry(), CircuitBreaker(config) and before any
\* LoadBalancer is constructed; the arguments of the call under study are
\* left open
Constructed ==
    /\ now = 0
    /\ ticks = 0
    /\ cb = CircuitBreakerInit
    /\ op = "init"
    /\ cbRet = TRUE
    /\ failsSince = 0
    /\ hoSuccesses = 0
    /\ lock = NoThread
    /\ pc = [t \in Threads |-> "idle"]
    /\ tmp = [t \in Threads |-> 0]
    /\ stamp = [t \in Threads |-> 0]
    /\ tret = [t \in Threads |-> TRUE]
    /\ lin = CircuitBreakerInit
    /\ linRet = [t \in Threads |-> TRUE]
    /\ snap = [t \in Threads |-> <<>>]
    /\ retCount = [i \in InstanceIds |-> 0]
    /\ gs = GsIdle
    /\ services = EmptyDict
    /\ circuit_breakers = EmptyDict
    /\ load_balancer_state = EmptyDict
    /\ request_history = EmptyDict
    /\ hashOf = EmptyDict
    /\ selRet = NoInstance
    /\ selSvc = "None"
    /\ rrK = [s \in ServiceNames |-> 0]
    /\ rrList = [s \in ServiceNames |-> <<>>]
    /\ callRet = "None"
    /\ statsRet = NoStats
    /\ regs = 0
    /\ updates = 0
    /\ selStrategy = "None"
    /\ selIp = NoIP
    /\ wK = 0
    /\ wList = <<>>
    /\ wCount = [i \in InstanceIds |-> 0]
    /\ affinity = EmptyDict
    /\ route_rules = <<>>
    /\ routeRet = NoRule
    /\ addRet = "None"
    /\ matchRet = FALSE
    /\ firstAdded = <<>>
    /\ latestRule = EmptyDict
    /\ service_urls = NoLoadBalancer
    /\ lbUrls = <<>>
    /\ lbK = 0
    /\ lbRet = "None"
    /\ lastReg = <<>>
    /\ services_config = <<>>
    /\ hc_circuit_breakers = EmptyDict
    /\ health_history = EmptyDict
    /\ running = FALSE
    /\ check_thread = None
    /\ hlock = NoThread
    /\ hcArg = "None"
    /\ hcRet = "None"
    /\ probes = 0
    /\ recorded = [success |-> 0, failure |-> 0]
    /\ checks = 0
    /\ cycles = 0
    /\ appended = EmptyDict
    /\ loopPc = [i \in LoopIds |-> "unborn"]
    /\ ctlPc = [c \in Controllers |-> "idle"]
    /\ ctlThread = [c \in Controllers |-> None]
    /\ ctlCalls = 0
    /\ loopCycles = 0
    /\ loopDone = 0
    /\ loopRaised = 0
    /\ liveAtStop = [c \in Controllers |-> {}]
    /\ hpc = [t \in Threads |-> "idle"]
    /\ hidx = [t \in Threads |-> 0]
    /\ hres = [t \in Threads |-> "None"]
    /\ hslice = [t \in Threads |-> <<>>]

Init == Constructed /\ routeArg = NoArgs

\* sequential use of one health-check breaker
NextCB == CanExecute \/ RecordSuccess \/ RecordFailure \/ Tick

SpecCB == Init /\ [][NextCB]_vars

\* concurrent use of one health-check breaker
NextCBConc == (\E t \in Threads : ThStep(t) /\ UNCHANGED gs) \/ Tick

SpecCBConc == Init /\ [][NextCBConc]_vars

\* the selections are not counted
NotCounted(s) == UNCHANGED rrVars

\* counts the ROUND_ROBIN selections of service s made while its eligible
\* list is the one of its first such selection
CountRoundRobin(s) ==
    LET healthy == get_healthy_instances(services, s) IN
    /\ rrK[s] < MaxSelects
    /\ UNCHANGED <<selStrategy, selIp, wK, wList, wCount, affinity>>
    /\ IF rrK[s] = 0 /\ healthy = <<>> THEN UNCHANGED <<rrK, rrList>>
       ELSE IF rrK[s] = 0
       THEN /\ rrK' = [rrK EXCEPT ![s] = 1]
            /\ rrList' = [rrList EXCEPT ![s] = healthy]
       ELSE /\ rrK' = [rrK EXCEPT ![s] =
                         IF rrK[s] > 0 /\ healthy = rrList[s]
                         THEN rrK[s] + 1 ELSE -1]
            /\ UNCHANGED rrList

\* callers of register_service, deregister_service and select_instance:
\* they register instances of the services regSvcs with the given ids and
\* statuses and select with the given strategies and client addresses
SelectionCalls(regSvcs, ids, statuses, strategies, ips, History(_)) ==
    \/ \E s \in regSvcs, i \in ids, st \in statuses :
          RegisterService(s, NewInstance(i, st)) /\ UNCHANGED lastReg
    \/ \E s \in ServiceNames, i \in ids : DeregisterService(s, i)
    \/ \E s \in ServiceNames, strategy \in strategies, ip \in ips :
          SelectInstance(s, strategy, ip) /\ History(s)

\* sequential registration and selection with every strategy; "s2" is
\* never registered. Only IP_HASH reads client_ip (lines 372-373), so it
\* alone is also called without an address
NextSel ==
    \/ SelectionCalls({"s1"}, {"A", "B"}, Statuses, Strategies, {"ip1"},
                      NotCounted)
    \/ \E s \in ServiceNames :
          SelectInstance(s, "ip_hash", NoIP) /\ NotCounted(s)

SpecSel == Init /\ [][NextSel]_vars

\* sequential registration and round-robin selection on two services
NextRR ==
    SelectionCalls(ServiceNames, InstanceIds, {"healthy", "unhealthy"},
                   {"round_robin"}, {NoIP}, CountRoundRobin)

SpecRR == Init /\ [][NextRR]_vars

\* one service instance behind its routing breaker: selections with every
\* strategy, calls through the breaker, and the passing of time
NextBrk ==
    \/ SelectionCalls({"s1"}, {"A"}, {"healthy", "unhealthy"}, Strategies,
                      {NoIP}, NotCounted)
    \/ \E s \in ServiceNames, ok \in BOOLEAN : BreakerCall(s, ok)
    \/ Tick

SpecBrk == Init /\ [][NextBrk]_vars

\* request threads selecting round-robin for "s1" on the instances
\* registered at startup
NextRRConc == Startup("s1") \/ \E t \in Threads : SelStep(t, "s1")

SpecRRConc == Init /\ [][NextRRConc]_vars

(***************************************************************************)
(* Claims about ServiceRegistry.select_instance                            *)
(***************************************************************************)
\* C6: while the registry's breaker of a service is OPEN and its recovery
\* timeout has not elapsed, select_instance for that service returns None,
\* for every strategy and whatever the statuses of its instances.
C6_OpenBreakerBlocksSelection ==
    [][ (/\ op' = "select_instance"
         /\ selSvc' \in DOMAIN circuit_breakers
         /\ circuit_breakers[selSvc'].state = "OPEN"
         /\ now - circuit_breakers[selSvc'].last_failure_time
               < RoutingRecoveryTimeout)
        => selRet' = NoInstance
      ]_vars

\* the service has no instance with status HEALTHY or DEGRADED (none
\* registered and unknown name included)
NoneEligible(s) ==
    \A k \in 1..Len(Get(services, s, <<>>)) :
        services[s][k].status \notin {"healthy", "degraded"}

\* C7: when the service has no HEALTHY or DEGRADED instance, select_instance
\* returns None for every strategy and client address and changes no
\* registry state (instances, breakers, cursors, counters, histories).
C7_NoEligibleReturnsNone ==
    [][ (op' = "select_instance" /\ NoneEligible(selSvc')) =>
             /\ selRet' = NoInstance
             /\ UNCHANGED <<services, circuit_breakers, load_balancer_state,
                            request_history, hashOf>>
      ]_vars

\* C7 witness: "s1" had a round-robin cursor from an earlier selection, its
\* registered instances are now all ineligible, and a selection on it
\* returned None
C7_Witness ==
    /\ op = "select_instance" /\ selSvc = "s1" /\ selRet = NoInstance
    /\ "s1" \in DOMAIN services /\ Len(services["s1"]) > 0 /\ NoneEligible("s1")
    /\ "s1" \in DOMAIN load_balancer_state
    /\ load_balancer_state["s1"].round_robin_index # None

\* C9: on a fixed eligible list of N instances the k-th ROUND_ROBIN
\* selection of a service returns instances[(k-1) mod N], and a selection
\* for one service leaves every other service's load-balancer state alone.
C9_RoundRobinOrder ==
    [][ \A s \in ServiceNames :
          (op' = "select_instance" /\ selSvc' = s) =>
             /\ rrK'[s] >= 1 =>
                   selRet' = rrList'[s][((rrK'[s] - 1) % Len(rrList'[s])) + 1]
             /\ \A o \in ServiceNames \ {s} :
                   /\ (o \in DOMAIN load_balancer_state')
                         = (o \in DOMAIN load_balancer_state)
                   /\ Get(load_balancer_state', o, EmptyLB)
                         = Get(load_balancer_state, o, EmptyLB)
      ]_vars

\* C9 witness: the fourth selection on the three eligible instances of "s1"
\* returned the first of them again
C9_Witness ==
    /\ rrK["s1"] = 4 /\ Len(rrList["s1"]) = 3
    /\ op = "select_instance" /\ selSvc = "s1" /\ selRet = rrList["s1"][1]

(***************************************************************************)
(* Claims about the health-check CircuitBreaker                            *)
(***************************************************************************)
\* C1: a CLOSED breaker stays CLOSED while fewer than FailureThreshold
\* record_failure calls have occurred since the last record_success (or
\* creation); the FailureThreshold-th one moves it to OPEN and stamps
\* last_failure_time; record_success while CLOSED resets failure_count to 0;
\* nothing else opens it; can_execute right after opening returns False.
C1_OpensAtThreshold ==
    [][ /\ (cb.state = "CLOSED" /\ op' = "record_failure") =>
            /\ failsSince' <= FailureThreshold
            /\ failsSince' < FailureThreshold => cb'.state = "CLOSED"
            /\ failsSince' = FailureThreshold =>
                  (cb'.state = "OPEN" /\ cb'.last_failure_time = now)
        /\ (cb.state = "CLOSED" /\ op' = "record_success") =>
            (cb'.failure_count = 0 /\ cb'.state = "CLOSED")
        /\ (cb.state = "CLOSED" /\ cb'.state # "CLOSED") =>
            (op' = "record_failure" /\ cb'.state = "OPEN")
        /\ (cb.state = "OPEN" /\ op = "record_failure"
              /\ cb.last_failure_time = now /\ op' = "can_execute") =>
            (cbRet' = FALSE /\ cb'.state = "OPEN")
      ]_vars

\* C1 witness: the FailureThreshold-th consecutive failure opened the breaker
\* and the can_execute that followed was refused
C1_Witness ==
    /\ cb.state = "OPEN" /\ op = "can_execute" /\ cbRet = FALSE
    /\ failsSince = FailureThreshold /\ cb.last_failure_time = now

\* C2: can_execute returns True and changes nothing when CLOSED; when OPEN
\* with elapsed time d = now - last_failure_time >= 0 it returns False and
\* stays OPEN if d < RecoveryTimeout, and otherwise moves to HALF_OPEN with
\* success_count 0 and returns True (also for d of a day or more).
C2_AdmissionRule ==
    [][ op' = "can_execute" =>
        /\ cb.state = "CLOSED" => (cbRet' = TRUE /\ cb' = cb)
        /\ (cb.state = "OPEN" /\ cb.last_failure_time # None
              /\ now - cb.last_failure_time >= 0) =>
            IF now - cb.last_failure_time < RecoveryTimeout
            THEN cbRet' = FALSE /\ cb' = cb
            ELSE /\ cbRet' = TRUE
                 /\ cb'.state = "HALF_OPEN"
                 /\ cb'.success_count = 0
      ]_vars

\* C3: in HALF_OPEN the breaker closes only at the SuccessThreshold-th
\* record_success since it entered HALF_OPEN (it is still HALF_OPEN after
\* fewer); one record_failure in HALF_OPEN moves it to OPEN and stamps
\* last_failure_time, however many successes were counted.
C3_HalfOpen ==
    [][ /\ (cb.state = "HALF_OPEN" /\ op' = "record_success") =>
            /\ hoSuccesses' <= SuccessThreshold
            /\ hoSuccesses' < SuccessThreshold => cb'.state = "HALF_OPEN"
            /\ hoSuccesses' = SuccessThreshold => cb'.state = "CLOSED"
        /\ (cb.state = "HALF_OPEN" /\ op' = "record_failure") =>
            (cb'.state = "OPEN" /\ cb'.last_failure_time = now)
        /\ (cb.state = "HALF_OPEN" /\ cb'.state = "CLOSED") =>
            (op' = "record_success" /\ hoSuccesses' = SuccessThreshold)
      ]_vars

\* C3 witness: the breaker has just closed on the SuccessThreshold-th success
\* of a HALF_OPEN period that was not its first
C3_Witness ==
    /\ cb.state = "CLOSED" /\ op = "record_success"
    /\ hoSuccesses = SuccessThreshold /\ ticks = 2

\* C4: right after the transition HALF_OPEN -> CLOSED both failure_count and
\* success_count are 0.
C4_CountersReset ==
    [][ (cb.state = "HALF_OPEN" /\ cb'.state = "CLOSED") =>
        (cb'.failure_count = 0 /\ cb'.success_count = 0) ]_vars

\* C5: concurrent record_failure / record_success / can_execute calls are
\* linearizable: whenever no call is inside the breaker, (state,
\* failure_count, success_count) equal the result of applying the completed
\* calls one at a time in the order they finished (so no update is lost),
\* every can_execute returned what it returns in that order, and the state
\* is CLOSED, OPEN or HALF_OPEN.
C5_Linearizable ==
    /\ cb.state \in {"CLOSED", "OPEN", "HALF_OPEN"}
    /\ (\A t \in Threads :
            pc[t] \in {"idle", "can_execute", "record_success", "record_failure"})
        => /\ Fields(cb) = Fields(lin)
           /\ \A t \in Threads : tret[t] = linRet[t]

\* C5 witness: two record_failure calls overlapped (one waited for the lock
\* while the other was inside) and both increments are in failure_count
C5_Witness ==
    /\ \A t \in Threads : pc[t] = "idle"
    /\ cb.state = "CLOSED" /\ cb.failure_count = 2 /\ lin.failure_count = 2
    /\ now = 0

\* the proxy reporting outcomes of one registered instance ("B" is never
\* registered), next to calls through the service's routing breaker and the
\* passing of time
NextMet ==
    \/ \E st \in {"healthy", "unhealthy"} :
          RegisterService("s1", NewInstance("A", st)) /\ UNCHANGED lastReg
    \/ \E s \in ServiceNames, i \in {"A", "B"}, rt \in RtSamples,
          success \in BOOLEAN : UpdateInstanceMetrics(s, i, rt, success)
    \/ \E s \in ServiceNames, ok \in BOOLEAN : BreakerCall(s, ok)
    \/ Tick

SpecMet == Init /\ [][NextMet]_vars

\* the ids of the HEALTHY or DEGRADED instances of a service
EligibleIds(s) ==
    {services[s][k].id : k \in {j \in 1..Len(Get(services, s, <<>>)) :
        services[s][j].status \in {"healthy", "degraded"}}}

\* C10: under every interleaving of concurrent ROUND_ROBIN selections on a
\* fixed eligible set, the numbers of times any two instances were returned
\* differ by at most one, and once the calls have completed the cursor has
\* advanced by exactly one per call.
C10_FairUnderConcurrency ==
    /\ \A a, b \in EligibleIds("s1") : retCount[a] - retCount[b] <= 1
    /\ (SumOver(retCount, InstanceIds) > 0 /\ \A t \in Threads : pc[t] = "idle")
         => load_balancer_state["s1"].round_robin_index =
              SumOver(retCount, InstanceIds) % Cardinality(EligibleIds("s1"))

(***************************************************************************)
(* Claims about ServiceRegistry.update_instance_metrics                    *)
(***************************************************************************)
\* C8: every update_instance_metrics call for a registered instance forwards
\* the outcome to the service's breaker in the registry: a failed outcome
\* raises its failure_count by one, a successful one resets it to 0.
C8_OutcomeForwarded ==
    [][ \A key \in DOMAIN request_history' :
          (/\ op' = "update_instance_metrics"
           /\ request_history'[key] # Get(request_history, key, <<>>))
          => LET outcome == request_history'[key][Len(request_history'[key])]
                 s == key[1]
             IN  /\ s \in DOMAIN circuit_breakers'
                 /\ circuit_breakers'[s].failure_count =
                       IF outcome.success THEN 0
                       ELSE circuit_breakers[s].failure_count + 1
      ]_vars

(***************************************************************************)
(* Claims about utils/load_balancer.py                                     *)
(***************************************************************************)
\* one LoadBalancer, constructed on any list and then asked for URLs
NextLB == (\E urls \in UrlLists : LoadBalancerNew(urls)) \/ GetNextServiceUrl

SpecLB == Init /\ [][NextLB]_vars

\* C11: for a list of N >= 1 URLs the k-th get_next_service_url call returns
\* urls[(k-1) mod N].
C11_CyclesInOrder ==
    [][ (op' = "get_next_service_url" /\ Len(lbUrls) >= 1) =>
            lbRet' = lbUrls[((lbK' - 1) % Len(lbUrls)) + 1] ]_vars

\* C11 witness: on three different URLs the fourth call returned the first
C11_Witness ==
    /\ lbUrls = <<"u1", "u2", "u3">> /\ lbK = 4 /\ lbRet = "u1"
    /\ op = "get_next_service_url"

(***************************************************************************)
(* Claims about the selection strategies                                   *)
(***************************************************************************)
\* records the strategy and client address of the selection
Traced(strategy, ip) == selStrategy' = strategy /\ selIp' = ip

\* counts the WEIGHTED_ROUND_ROBIN selections of service s, from the one that
\* creates its counters, made while its eligible list is the one of the first
CountWeighted(s) ==
    LET healthy == get_healthy_instances(services, s) IN
    /\ Traced("weighted_round_robin", NoIP)
    /\ UNCHANGED <<rrK, rrList, affinity>>
    /\ IF wK = 0 /\ healthy = <<>> THEN UNCHANGED <<wK, wList, wCount>>
       ELSE IF wK = 0
       THEN /\ wK' = 1
            /\ wList' = healthy
            /\ wCount' = [wCount EXCEPT ![selRet'.id] = 1]
       ELSE IF wK > 0 /\ healthy = wList
       THEN /\ wK' = wK + 1
            /\ wCount' = [wCount EXCEPT ![selRet'.id] = @ + 1]
            /\ UNCHANGED wList
       ELSE /\ wK' = -1
            /\ UNCHANGED <<wList, wCount>>

\* sequential registration and weighted round-robin selection on "s1", for
\* two full rounds of the heaviest instance
NextWrr ==
    \/ \E i \in InstanceIds, st \in {"healthy", "unhealthy"} :
          RegisterService("s1", NewInstance(i, st)) /\ UNCHANGED lastReg
    \/ \E i \in InstanceIds : DeregisterService("s1", i)
    \/ /\ SelectInstanceWithin("s1", "weighted_round_robin", NoIP,
                                2 * MaxWeighted)
       /\ CountWeighted("s1")

SpecWrr == Init /\ [][NextWrr]_vars

\* the sum of the weights of a list of instances
WeightSum(instances) ==
    SumOver([k \in 1..Len(instances) |-> instances[k].weight],
            1..Len(instances))

\* C12: with counters starting at 0 and sequential WEIGHTED_ROUND_ROBIN
\* selections on a fixed eligible list, weights {A:2, B:1} yield A,B,A, and
\* after every k*sum(weight) selections each instance i has been selected
\* exactly k*weight[i] times.
C12_WeightedShare ==
    [][ (op' = "select_instance" /\ selStrategy' = "weighted_round_robin"
           /\ wK' >= 1) =>
          /\ (wK' % WeightSum(wList') = 0) =>
                \A k \in 1..Len(wList') :
                    wCount'[wList'[k].id] =
                        (wK' \div WeightSum(wList')) * wList'[k].weight
          /\ ([k \in 1..Len(wList') |-> wList'[k].id] = <<"A", "B">>
                 /\ wK' <= 3) =>
                selRet'.id = <<"A", "B", "A">>[wK']
      ]_vars

\* C12 witness: six selections on [A (weight 2), B (weight 1)] selected A
\* four times and B twice
C12_Witness ==
    /\ wK = 6 /\ Len(wList) = 2 /\ wList[1].id = "A" /\ wList[2].id = "B"
    /\ wCount["A"] = 4 /\ wCount["B"] = 2
    /\ op = "select_instance"

\* records the arguments of a selection that is not counted
TracedOnly(strategy, ip) ==
    /\ Traced(strategy, ip)
    /\ UNCHANGED <<rrK, rrList, wK, wList, wCount, affinity>>

\* sequential registration of instances with any active_connections and
\* least-connections selection; "s2" is never registered
NextLc ==
    \/ \E i \in InstanceIds, st \in {"healthy", "unhealthy"},
          conns \in ConnSamples :
          /\ RegisterService("s1", InstanceWithConns(i, st, conns))
          /\ UNCHANGED lastReg
    \/ \E i \in InstanceIds : DeregisterService("s1", i)
    \/ \E s \in ServiceNames :
          /\ SelectInstance(s, "least_connections", NoIP)
          /\ TracedOnly("least_connections", NoIP)

SpecLc == Init /\ [][NextLc]_vars

\* C13: LEAST_CONNECTIONS select_instance returns an eligible instance with
\* minimal active_connections among the eligible ones, the earliest in the
\* service's instance list among several minimal ones ({A:3, B:1, C:2} gives
\* B), and changes no active_connections value.
C13_LeastConnections ==
    [][ (op' = "select_instance" /\ selStrategy' = "least_connections"
           /\ ~NoneEligible(selSvc')) =>
          LET instances == services[selSvc']
              Ok(k) == instances[k].status \in {"healthy", "degraded"}
          IN  /\ \E k \in 1..Len(instances) :
                    /\ Ok(k)
                    /\ selRet' = instances[k]
                    /\ \A j \in 1..Len(instances) : Ok(j) =>
                          instances[j].active_connections
                              >= instances[k].active_connections
                    /\ \A j \in 1..(k - 1) : Ok(j) =>
                          instances[j].active_connections
                              > instances[k].active_connections
              /\ services' = services
              /\ ([k \in 1..Len(instances) |->
                      <<instances[k].id, instances[k].active_connections>>]
                    = << <<"A", 3>>, <<"B", 1>>, <<"C", 2>> >>
                    /\ \A k \in 1..3 : Ok(k))
                  => selRet'.id = "B"
      ]_vars

\* C13 witness: of the eligible instances B and C, both with one connection
\* and fewer than the eligible A before them, the selection returned B
C13_Witness ==
    /\ op = "select_instance" /\ selStrategy = "least_connections"
    /\ selSvc = "s1" /\ "s1" \in DOMAIN services
    /\ [k \in 1..Len(services["s1"]) |->
           <<services["s1"][k].id, services["s1"][k].active_connections,
             services["s1"][k].status>>]
         = << <<"A", 3, "healthy">>, <<"B", 1, "healthy">>,
              <<"C", 1, "healthy">> >>
    /\ selRet.id = "B"

\* records, per client address, the eligible list and the returned instance
\* of its latest IP_HASH selection, and whether the one before it was made on
\* the same list
CountAffinity(s, ip) ==
    LET healthy == get_healthy_instances(services, s) IN
    /\ Traced("ip_hash", ip)
    /\ UNCHANGED <<rrK, rrList, wK, wList, wCount>>
    /\ affinity' =
          IF healthy = <<>> \/ ip = NoIP THEN affinity
          ELSE Put(affinity, ip,
                   [list |-> healthy, ret |-> selRet',
                    again |-> /\ ip \in DOMAIN affinity
                              /\ affinity[ip].list = healthy])

\* sequential registration on "s1" and IP-hash selection for one client and
\* for requests without a client address
NextHash ==
    \/ \E i \in InstanceIds, st \in {"healthy", "unhealthy"} :
          RegisterService("s1", NewInstance(i, st)) /\ UNCHANGED lastReg
    \/ \E i \in InstanceIds : DeregisterService("s1", i)
    \/ \E ip \in {"ip1", NoIP} :
          SelectInstance("s1", "ip_hash", ip) /\ CountAffinity("s1", ip)

SpecHash == Init /\ [][NextHash]_vars

\* the HEALTHY or DEGRADED instances of a service, in list order
EligibleList(s) ==
    LET Ok(inst) == inst.status \in {"healthy", "degraded"}
    IN  SelectSeq(Get(services, s, <<>>), Ok)

\* C14: for a given client IP and an unchanged eligible list every IP_HASH
\* selection returns the same instance, namely instances[hash(ip) mod N],
\* with hash(ip) the same at every call.
C14_IpHashDeterministic ==
    [][ (op' = "select_instance" /\ selStrategy' = "ip_hash"
           /\ selIp' # NoIP /\ ~NoneEligible(selSvc')) =>
          LET instances == EligibleList(selSvc')
              ip == selIp'
          IN  /\ (ip \in DOMAIN affinity /\ affinity[ip].list = instances)
                    => selRet' = affinity[ip].ret
              /\ selRet' =
                    instances[(hashOf'[selIp'] % Len(instances)) + 1]
              /\ selIp' \in DOMAIN hashOf => hashOf'[selIp'] = hashOf[selIp']
      ]_vars

\* C14 witness: a client whose hash selects the third of three eligible
\* instances got that instance again on its next selection
C14_Witness ==
    /\ op = "select_instance" /\ selStrategy = "ip_hash" /\ selIp = "ip1"
    /\ "ip1" \in DOMAIN affinity
    /\ Len(affinity["ip1"].list) = 3 /\ affinity["ip1"].again
    /\ affinity["ip1"].ret = affinity["ip1"].list[3]
    /\ selRet = affinity["ip1"].list[3]

(***************************************************************************)
(* Claims about route rules                                                *)
(***************************************************************************)
\* _pattern_matches applied once to any pattern and any path
InitMatch == Constructed /\ routeArg \in MatchInputs

NextMatch == PatternMatches

SpecMatch == InitMatch /\ [][NextMatch]_vars

\* routes are added, added again and looked up
NextRoute ==
    \/ \E pattern \in RoutePatterns, rule \in Rules :
          AddRouteRule(pattern, rule)
    \/ \E path \in RoutePaths : FindRouteRule(path)

SpecRoute == Init /\ [][NextRoute]_vars

\* C15: find_route_rule returns the rule of the pattern equal to the path if
\* one is registered; otherwise the rule of the earliest-registered pattern
\* that matches the path (a pattern registered again keeps its position and
\* has its latest rule); otherwise None.
C15_FirstMatchWins ==
    [][ op' = "find_route_rule" =>
          LET path == routeArg'.path
              matching == {k \in 1..Len(firstAdded) :
                              pattern_matches(firstAdded[k], path)}
          IN  IF path \in DOMAIN latestRule
              THEN routeRet' = latestRule[path].rule
              ELSE IF matching # {}
              THEN \E k \in matching :
                      /\ \A j \in matching : k <= j
                      /\ routeRet' = latestRule[firstAdded[k]].rule
              ELSE routeRet' = NoRule
      ]_vars

\* C15 witness: "/a/" was registered before "/*/b" and registered again with
\* another rule afterwards; looking up "/a/b", which both match and which is
\* no registered pattern, returned the latest rule of "/a/"
C15_Witness ==
    /\ op = "find_route_rule"
    /\ routeArg.path = <<"/", "a", "/", "b">>
    /\ firstAdded = << <<"/", "a", "/">>, <<"/", "*", "/", "b">> >>
    /\ latestRule[<<"/", "a", "/">>].again
    /\ latestRule[<<"/", "a", "/">>].rule # latestRule[<<"/", "*", "/", "b">>].rule
    /\ routeRet = latestRule[<<"/", "a", "/">>].rule

\* C18: add_route_rule with an empty pattern is rejected: the caller is told
\* the pattern is invalid and the route table is left unchanged.
C18_EmptyPatternRejected ==
    [][ (op' = "add_route_rule" /\ routeArg'.pattern = <<>>) =>
          /\ addRet' = "InvalidRoutePattern"
          /\ route_rules' = route_rules
      ]_vars

\* the path is the part of the pattern before its '*', then one path segment
\* (no '/' in it), then the part after the '*'
SingleSegment(pattern, path) ==
    LET k == CHOOSE j \in StarsOf(pattern) : TRUE
        before == k - 1
        after == Len(pattern) - k
    IN  /\ Len(path) >= before + after
        /\ \A j \in 1..before : path[j] = pattern[j]
        /\ \A j \in 1..after :
              path[Len(path) - after + j] = pattern[k + j]
        /\ \A j \in (before + 1)..(Len(path) - after) : path[j] # "/"

\* C16: a pattern with exactly one '*' matches a path only when the '*'
\* stands for a single path segment: "/api/*/read" matches "/api/foo/read"
\* and does not match "/api/foo/bar/read".
C16_WildcardOneSegment ==
    [][ (op' = "_pattern_matches"
           /\ Cardinality(StarsOf(routeArg.pattern)) = 1) =>
          /\ matchRet' => SingleSegment(routeArg.pattern, routeArg.path)
          /\ (routeArg.pattern = <<"/", "a", "/", "*", "/", "a">>
                /\ routeArg.path = <<"/", "a", "/", "b", "/", "a">>)
               => matchRet'
      ]_vars

\* C17: a pattern without '*' that ends in '/' matches a path exactly when
\* the path starts with the pattern less its one trailing slash; a pattern
\* without '*' and without trailing slash matches only the identical path.
C17_PrefixOrExact ==
    [][ (op' = "_pattern_matches" /\ StarsOf(routeArg.pattern) = {}) =>
          LET pattern == routeArg.pattern
              path == routeArg.path
              n == Len(pattern)
          IN  IF n > 0 /\ pattern[n] = "/"
              THEN matchRet' =
                     (/\ Len(path) >= n - 1
                      /\ \A j \in 1..(n - 1) : path[j] = pattern[j])
              ELSE matchRet' = (pattern = path)
      ]_vars

\* C17 as amended: a pattern without '*' that ends in '/' matches a path
\* exactly when the path starts with the pattern less all of its trailing
\* slashes; a pattern without '*' and without trailing slash matches only the
\* identical path.
C17_PrefixAllSlashesRemoved ==
    [][ (op' = "_pattern_matches" /\ StarsOf(routeArg.pattern) = {}) =>
          LET pattern == routeArg.pattern
              path == routeArg.path
              n == Len(pattern)
              kept == {j \in 1..n : \E i \in j..n : pattern[i] # "/"}
          IN  IF n > 0 /\ pattern[n] = "/"
              THEN matchRet' =
                     (/\ Len(path) >= Cardinality(kept)
                      /\ \A j \in kept : path[j] = pattern[j])
              ELSE matchRet' = (pattern = path)
      ]_vars

\* C17 witness: the pattern "/a//" matched the path "/a", which does not
\* start with "/a/"
C17_Witness ==
    /\ op = "_pattern_matches" /\ matchRet
    /\ routeArg.pattern = <<"/", "a", "/", "/">>
    /\ routeArg.path = <<"/", "a">>

(***************************************************************************)
(* Claims about register_service and deregister_service                    *)
(***************************************************************************)
\* records the arguments of a register_service call
Registered(s, instance) == lastReg' = <<s, instance>>

\* a registry in use: instances of "s1" are registered, replaced and
\* deregistered ("s2" and instance "C" are never registered), next to
\* selections, outcome reports and route registrations
NextReg ==
    \/ \E i \in {"A", "B"}, st \in {"healthy", "unhealthy"} :
          /\ RegisterService("s1", NewInstance(i, st))
          /\ Registered("s1", NewInstance(i, st))
    \/ \E s \in ServiceNames, i \in InstanceIds : DeregisterService(s, i)
    \/ \E s \in ServiceNames :
          SelectInstance(s, "round_robin", NoIP) /\ NotCounted(s)
    \/ \E success \in BOOLEAN :
          UpdateInstanceMetrics("s1", "A", 100, success)
    \/ \E rule \in Rules : AddRouteRule(<<"/", "a", "/">>, rule)

SpecReg == Init /\ [][NextReg]_vars

\* the positions of the instances with id i in a list
WithId(instances, i) == {k \in 1..Len(instances) : instances[k].id = i}

\* C19: register_service is an idempotent upsert by instance id: no two
\* instances of a service ever share an id; registering an id that exists
\* replaces that instance and keeps the instance count (a new id adds one,
\* the other instances stay); registering the same instance twice in a row
\* leaves the registry as registering it once.
C19_IdempotentUpsert ==
    [][ /\ \A s \in DOMAIN services' : \A j, k \in 1..Len(services'[s]) :
              services'[s][j].id = services'[s][k].id => j = k
        /\ op' = "register_service" =>
              LET s == lastReg'[1]
                  instance == lastReg'[2]
                  old == Get(services, s, <<>>)
                  new == services'[s]
              IN  /\ \E k \in 1..Len(new) : new[k] = instance
                  /\ Len(new) = IF WithId(old, instance.id) # {}
                                THEN Len(old) ELSE Len(old) + 1
                  /\ \A k \in 1..Len(old) : old[k].id # instance.id =>
                        \E j \in 1..Len(new) : new[j] = old[k]
        /\ (op = "register_service" /\ op' = "register_service"
              /\ lastReg' = lastReg) =>
              UNCHANGED <<services, circuit_breakers, load_balancer_state,
                          request_history, route_rules>>
      ]_vars

\* C19 witness: instance A of "s1", registered before B, was registered again
\* with another status: "s1" still has two instances and one A, the new one
C19_Witness ==
    /\ op = "register_service" /\ lastReg = <<"s1", NewInstance("A", "unhealthy")>>
    /\ Len(services["s1"]) = 2 /\ regs = 3
    /\ services["s1"][1].id = "B"
    /\ services["s1"][2] = NewInstance("A", "unhealthy")

\* C20: deregister_service for a service name or instance id that is not
\* registered is a no-op: the services map (its set of service names
\* included), the circuit breakers, the route table, the load-balancer state
\* and the outcome histories are unchanged.
C20_DeregisterAbsentNoOp ==
    [][ (/\ op' = "deregister_service"
         /\ \A s \in DOMAIN services : services'[s] = services[s]) =>
          /\ DOMAIN services' = DOMAIN services
          /\ UNCHANGED <<services, circuit_breakers, route_rules,
                         load_balancer_state, request_history>>
      ]_vars

\* C21: after any sequence of register_service and deregister_service calls
\* every service name in the services map has a circuit breaker, and
\* a registration or deregistration never replaces or resets the breaker a
\* service already has.
C21_OneBreakerPerService ==
    [][ /\ \A s \in DOMAIN services' : s \in DOMAIN circuit_breakers'
        /\ op' \in {"register_service", "deregister_service"} =>
              \A s \in DOMAIN circuit_breakers :
                  /\ s \in DOMAIN circuit_breakers'
                  /\ circuit_breakers'[s] = circuit_breakers[s]
      ]_vars

(***************************************************************************)
(* Further claims about update_instance_metrics and unknown service names  *)
(***************************************************************************)
\* the outcomes of a history that are less than ErrorWindow seconds old at t
InWindow(history, t) ==
    LET Young(req) == t - req.timestamp < ErrorWindow
    IN  SelectSeq(history, Young)

\* C22: after update_instance_metrics on a registered instance its error_rate
\* is 100 * failed / all over exactly the outcomes of its ring that are less
\* than ErrorWindow (300) seconds old; older outcomes, those of a day or more
\* included, are left out.
C22_ErrorRateWindow ==
    [][ \A key \in DOMAIN request_history' :
          (/\ op' = "update_instance_metrics"
           /\ request_history'[key] # Get(request_history, key, <<>>))
          => LET window == InWindow(request_history'[key], now)
                 Failed(req) == ~req.success
                 k == IndexOfId(services'[key[1]], key[2])
             IN  services'[key[1]][k].error_rate =
                    [failed |-> Len(SelectSeq(window, Failed)),
                     total |-> Len(window)]
      ]_vars

\* C23: select_instance for a service name that was never registered tells
\* its caller so: what it returns differs from the no-healthy-instance
\* signal (None) and is no instance, and the registry is left unchanged.
C23_UnknownServiceReported ==
    [][ (op' = "select_instance" /\ selSvc' \notin DOMAIN circuit_breakers) =>
          /\ selRet' # NoInstance
          /\ selRet' \notin InstancePool
          /\ UNCHANGED <<services, circuit_breakers, load_balancer_state,
                         request_history, route_rules>>
      ]_vars

\* C35: whenever no call is inside the breaker, CLOSED implies
\* failure_count < FailureThreshold, HALF_OPEN implies success_count <
\* SuccessThreshold, OPEN or HALF_OPEN implies last_failure_time is set, and
\* neither counter is negative.
C35_BreakerInvariant ==
    lock = NoThread =>
       /\ cb.state = "CLOSED" => cb.failure_count < FailureThreshold
       /\ cb.state = "HALF_OPEN" => cb.success_count < SuccessThreshold
       /\ cb.state \in {"OPEN", "HALF_OPEN"} => cb.last_failure_time # None
       /\ cb.failure_count >= 0 /\ cb.success_count >= 0

\* C35 witness: between two calls the breaker is HALF_OPEN one success short
\* of closing
C35_Witness ==
    /\ lock = NoThread /\ \A t \in Threads : pc[t] = "idle"
    /\ cb.state = "HALF_OPEN"
    /\ cb.success_count = SuccessThreshold - 1
    /\ cb.last_failure_time # None

\* C36: a record_success or record_failure call that arrives while the
\* breaker is OPEN leaves it OPEN and leaves last_failure_time as it was, so
\* the instant at which can_execute first admits a trial does not move.
C36_OpenIsStable ==
    [][ (cb.state = "OPEN" /\ op' \in {"record_success", "record_failure"}) =>
          /\ cb'.state = "OPEN"
          /\ cb'.last_failure_time = cb.last_failure_time
      ]_vars

\* one thread calling can_execute, record_success and record_failure on a
\* breaker while another calls get_state
NextGs ==
    \/ ThStep("t1") /\ GsObserves
    \/ GsStep

SpecGs == Init /\ [][NextGs]_vars

\* C34: the dict get_state returns holds values of state, failure_count,
\* success_count and last_failure_time that the breaker's fields had
\* together at one instant of the call, whatever record_failure,
\* record_success and can_execute calls run at the same time.
C34_ConsistentSnapshot ==
    [][ (gs.pc = "return" /\ gs'.pc = "idle") =>
          \E b \in gs.seen : \A f \in DOMAIN b : gs.ret[f] = b[f]
      ]_vars

\* two services with different instances: "s1" has "A" in any status but
\* DEGRADED and the degraded "B", "s2" has the healthy "C"; selections with
\* every strategy on "s1" (only IP_HASH reads client_ip) and round-robin
\* selections on "s2"
NextElig ==
    \/ \E st \in Statuses \ {"degraded"} :
          RegisterService("s1", NewInstance("A", st)) /\ UNCHANGED lastReg
    \/ RegisterService("s1", NewInstance("B", "degraded")) /\ UNCHANGED lastReg
    \/ RegisterService("s2", NewInstance("C", "healthy")) /\ UNCHANGED lastReg
    \/ \E s \in ServiceNames : DeregisterService(s, "A")
    \/ \E strategy \in Strategies, ip \in {"ip1", NoIP} :
          /\ strategy = "ip_hash" \/ ip = NoIP
          /\ SelectInstance("s1", strategy, ip) /\ NotCounted("s1")
    \/ SelectInstance("s2", "round_robin", NoIP) /\ NotCounted("s2")

SpecElig == Init /\ [][NextElig]_vars

\* C33: for every strategy select_instance returns None or an instance that
\* is in the instance list of the named service with status HEALTHY or
\* DEGRADED: never an UNHEALTHY or MAINTENANCE one, never one that only
\* another service holds.
C33_ReturnsEligibleInstance ==
    [][ op' = "select_instance" =>
          \/ selRet' = NoInstance
          \/ LET instances == Get(services', selSvc', <<>>) IN
             \E k \in 1..Len(instances) :
                /\ instances[k] = selRet'
                /\ selRet'.status \in {"healthy", "degraded"}
      ]_vars

\* C33 witness: a selection on "s1", which holds a MAINTENANCE and a DEGRADED
\* instance while "s2" holds a HEALTHY one, returned the DEGRADED instance
C33_Witness ==
    /\ op = "select_instance" /\ selSvc = "s1"
    /\ "s1" \in DOMAIN services /\ "s2" \in DOMAIN services
    /\ services["s1"] = <<NewInstance("A", "maintenance"),
                          NewInstance("B", "degraded")>>
    /\ services["s2"] = <<NewInstance("C", "healthy")>>
    /\ selRet = NewInstance("B", "degraded")

(***************************************************************************)
(* Claims about HealthChecker.check_service_health, check_all_services,    *)
(* get_service_status and get_health_summary                               *)
(***************************************************************************)
\* the response time requests.get is observed to take, in ms
ProbeTime == 100

\* request handlers and a prober checking the services of one HealthChecker,
\* one call at a time; the prober's cycles see HTTP responses and timeouts,
\* the handlers' single checks every outcome; time passes while a breaker
\* is open
NextHC ==
    \/ \E config \in Configs : HealthCheckerNew(config)
    \/ \E s \in ServiceNames, probe \in Probes :
          CheckServiceHealth(s, probe, ProbeTime)
    \/ \E probeOf \in [Configured(services_config) ->
                           {p \in Probes : p.kind \in {"response", "Timeout"}}] :
          CheckAllServices(probeOf, ProbeTime)
    \/ /\ \E s \in DOMAIN hc_circuit_breakers :
             hc_circuit_breakers[s].state = "OPEN"
       /\ Tick

SpecHC == Init /\ [][NextHC]_vars

\* the services of the last check_service_health / check_all_services call
\* whose breaker let the check through
Admitted ==
    {s \in DOMAIN hcRet' \cap Configured(services_config) :
        can_execute_ret(hc_circuit_breakers[s], now)}

\* the services of that call whose breaker refused
Refused ==
    {s \in DOMAIN hcRet' \cap Configured(services_config) :
        ~can_execute_ret(hc_circuit_breakers[s], now)}

\* C25: when the breaker of a service refuses (can_execute returns False)
\* the check of that service returns an UNHEALTHY result with the message
\* "Circuit breaker open", issues no probe and records no outcome: the
\* breaker's state, failure_count, success_count and last_failure_time are
\* unchanged.
C25_RefusedCheck ==
    [][ op' \in {"check_service_health", "check_all_services"} =>
          /\ \A s \in Refused :
                /\ hcRet'[s].status = "unhealthy"
                /\ hcRet'[s].error_message = "Circuit breaker open"
                /\ hc_circuit_breakers'[s] = hc_circuit_breakers[s]
          /\ probes' - probes = Cardinality(Admitted)
          /\ (recorded'.success + recorded'.failure)
                - (recorded.success + recorded.failure) = Cardinality(Admitted)
      ]_vars

\* C25 witness: after FailureThreshold failed probes of "s1" its breaker is
\* OPEN and a check of "s1" was refused: no sixth probe was issued
C25_Witness ==
    /\ op = "check_service_health" /\ DOMAIN hcRet = {"s1"}
    /\ hcRet["s1"].error_message = "Circuit breaker open"
    /\ hc_circuit_breakers["s1"].state = "OPEN"
    /\ hc_circuit_breakers["s1"].failure_count = FailureThreshold
    /\ probes = FailureThreshold /\ checks = FailureThreshold + 1

\* C26: every probe that is issued records exactly one outcome on the
\* service's breaker: HTTP 200 gives HEALTHY and one record_success, also
\* when the body cannot be parsed; a timeout, a connection error, another
\* exception or a non-200 response gives UNHEALTHY, one record_failure and an
\* error message naming the cause; and a check_all_services cycle appends
\* exactly one result, the one it returns, to the history of every
\* configured service.
C26_OneOutcomePerProbe ==
    [][ op' \in {"check_service_health", "check_all_services"} =>
          /\ \A s \in Admitted :
                LET probe == hcArg'[s]
                    b == can_execute_state(hc_circuit_breakers[s], now)
                    r == hcRet'[s]
                IN  IF probe.kind = "response" /\ probe.code = 200
                    THEN /\ r.status = "healthy"
                         /\ r.error_message = "None"
                         /\ hc_circuit_breakers'[s] = record_success(b)
                    ELSE /\ r.status = "unhealthy"
                         /\ hc_circuit_breakers'[s] = record_failure(b, now)
                         /\ r.error_message =
                              CASE probe.kind = "Timeout" -> "Request timeout"
                                [] probe.kind = "ConnectionError" ->
                                      "Connection error"
                                [] probe.kind = "response" ->
                                      HttpMessage(probe.code)
                                [] OTHER -> ExceptionText
          /\ recorded'.success - recorded.success =
                Cardinality({s \in Admitted : hcRet'[s].status = "healthy"})
          /\ recorded'.failure - recorded.failure =
                Cardinality({s \in Admitted : hcRet'[s].status = "unhealthy"})
          /\ op' = "check_all_services" =>
                /\ DOMAIN hcRet' = Configured(services_config)
                /\ \A s \in Configured(services_config) :
                      /\ appended'[s] = appended[s] + 1
                      /\ health_history'[s] =
                            Append(health_history[s],
                                   Entry(hcRet'[s], appended'[s]))
          /\ op' = "check_service_health" =>
                UNCHANGED <<health_history, appended>>
      ]_vars

\* C26 witness: in the second cycle over two services "s1" answered 200 with
\* a body that is no JSON and "s2" timed out: "s1" is HEALTHY, "s2" is
\* UNHEALTHY with "Request timeout", and each history has two results
C26_Witness ==
    /\ op = "check_all_services" /\ cycles = 2
    /\ services_config = <<"s1", "s2">>
    /\ hcArg["s1"] = [kind |-> "response", code |-> 200, json |-> FALSE]
    /\ hcArg["s2"].kind = "Timeout"
    /\ hcRet["s1"].status = "healthy" /\ hcRet["s1"].details = "{}"
    /\ hcRet["s2"].error_message = "Request timeout"
    /\ hc_circuit_breakers["s2"].failure_count = 2
    /\ Len(health_history["s1"]) = 2 /\ Len(health_history["s2"]) = 2

\* a prober running cycles over the configured services, and callers asking
\* for the status of a service and for the summary
NextSum ==
    \/ \E config \in Configs : HealthCheckerNew(config)
    \/ \E probeOf \in [Configured(services_config) -> Probes] :
          CheckAllServices(probeOf, ProbeTime)
    \/ \E s \in ServiceNames : GetServiceStatus(s)
    \/ GetHealthSummary

SpecSum == Init /\ [][NextSum]_vars

\* the configured services whose latest history entry is HEALTHY
LatestHealthy ==
    {s \in Configured(services_config) :
        /\ health_history[s] # <<>>
        /\ health_history[s][Len(health_history[s])].status = "healthy"}

\* C30: get_service_status returns the status of the latest entry of the
\* service's history, or UNKNOWN when it has none (a name that was never
\* configured included); in get_health_summary healthy_services is the
\* number of configured services whose latest status is HEALTHY,
\* healthy_services + unhealthy_services = total_services, and
\* health_percentage is 0 when there are no services.
C30_StatusAndSummary ==
    [][ /\ op' = "get_service_status" =>
              LET s == hcArg' IN
              hcRet' = IF s \in DOMAIN health_history /\ health_history[s] # <<>>
                       THEN health_history[s][Len(health_history[s])].status
                       ELSE "unknown"
        /\ op' = "get_health_summary" =>
              /\ hcRet'.total_services = Len(services_config)
              /\ hcRet'.healthy_services = Cardinality(LatestHealthy)
              /\ hcRet'.healthy_services + hcRet'.unhealthy_services
                    = hcRet'.total_services
              /\ services_config = <<>> => hcRet'.health_percentage.healthy = 0
      ]_vars

\* C30 witness: of two configured services "s1" was HEALTHY and is now
\* UNHEALTHY, "s2" was UNHEALTHY and is now HEALTHY: the summary counts one
\* healthy and one unhealthy service
C30_Witness ==
    /\ op = "get_health_summary" /\ services_config = <<"s1", "s2">>
    /\ Len(health_history["s1"]) = 2
    /\ health_history["s1"][1].status = "healthy"
    /\ health_history["s1"][2].status = "unhealthy"
    /\ health_history["s2"][1].status = "unhealthy"
    /\ health_history["s2"][2].status = "healthy"
    /\ hcRet.healthy_services = 1 /\ hcRet.unhealthy_services = 1
    /\ hcRet.health_percentage = [healthy |-> 1, total |-> 2]

\* a prober running many cycles over one service whose probes answer 200 or
\* time out, and callers asking for the summary
NextAvg ==
    \/ HealthCheckerNew(<<"s1">>)
    \/ \E probeOf \in [{"s1"} -> {HealthyBackend["s1"],
                                  [kind |-> "Timeout", code |-> 0,
                                   json |-> FALSE]}] :
          CheckAllServicesWithin(probeOf, ProbeTime, MaxSumCycles,
                                 MaxSumCycles)
    \/ GetHealthSummary

SpecAvg == Init /\ [][NextAvg]_vars

\* C31: in get_health_summary an average is reported for a service exactly
\* when its history holds a HEALTHY entry, and it is the average of the
\* response times of the latest min(10, number of HEALTHY entries) HEALTHY
\* entries of the history.
C31_AverageOverLatestHealthy ==
    [][ op' = "get_health_summary" =>
          \A s \in DOMAIN health_history :
             LET IsHealthy(r) == r.status = "healthy"
                 healthy == SelectSeq(health_history[s], IsHealthy)
                 latest == LastN(healthy, SummaryWindow)
                 avg == hcRet'.average_response_times
             IN  IF healthy = <<>> THEN s \notin DOMAIN avg
                 ELSE /\ s \in DOMAIN avg
                      /\ avg[s] = [sum |-> SumResponseTimes(latest),
                                   count |-> Len(latest)]
      ]_vars

\* the limits callers of get_service_history pass: none, fewer entries than
\* the history holds, as many, more, the default and the capacity
Limits == {0, 1, 2, 3, 50, HealthHistoryMax}

\* a prober running cycles over the configured services, whose probes answer
\* 200 or time out, and callers asking for the history of a service
NextSnap ==
    \/ \E config \in Configs : HealthCheckerNew(config)
    \/ \E probeOf \in [Configured(services_config) ->
                           {p \in Probes : p.kind = "Timeout" \/ p.json}] :
          CheckAllServices(probeOf, ProbeTime)
    \/ \E s \in ServiceNames, limit \in Limits : GetServiceHistory(s, limit)

SpecSnap == Init /\ [][NextSnap]_vars

\* C32: get_service_history(service, limit) with 0 <= limit <= 100 returns
\* at most limit entries, namely the most recent ones of the service's
\* history in chronological order, returns an empty list for a service
\* without history, and leaves the stored histories unchanged.
C32_BoundedSnapshot ==
    [][ op' = "get_service_history" =>
          LET s == hcArg'.service_name
              limit == hcArg'.limit
              history == Get(health_history, s, <<>>)
              n == Len(history)
              k == IF limit < n THEN limit ELSE n
          IN  /\ Len(hcRet') <= limit
              /\ Len(hcRet') = k
              /\ \A j \in 1..k : hcRet'[j] = history_dict(history[n - k + j])
              /\ history = <<>> => hcRet' = <<>>
              /\ health_history' = health_history
      ]_vars

\* what the probes of a service may answer in an iteration of the loop:
\* 200 or a timeout during the first MaxFaultCycles iterations, 200 from
\* then on
ProbesAt(n) ==
    IF n < MaxFaultCycles
    THEN {HealthyBackend["s1"], [kind |-> "Timeout", code |-> 0, json |-> FALSE]}
    ELSE {HealthyBackend["s1"]}

\* the monitoring loop of a HealthChecker of one service
NextRecover ==
    \/ HealthCheckerNew(<<"s1">>)
    \/ \E probeOf \in [{"s1"} -> ProbesAt(cycles)] :
          MonitorCheck(probeOf, ProbeTime)
    \/ MonitorSleep

\* the loop thread keeps running: its checks are made and its sleeps end
SpecRecover ==
    /\ Init /\ [][NextRecover]_vars
    /\ WF_vars(HealthCheckerNew(<<"s1">>))
    /\ WF_vars(\E probeOf \in [{"s1"} -> ProbesAt(cycles)] :
                  MonitorCheck(probeOf, ProbeTime))
    /\ WF_vars(MonitorSleep)

\* C37: when the monitoring loop keeps running and from some point on every
\* probe of a service answers 200, the service's breaker eventually is
\* CLOSED and its latest history status eventually is HEALTHY, and they
\* stay so.
C37_RecoveryIsLive ==
    <>[](/\ "s1" \in DOMAIN hc_circuit_breakers
         /\ hc_circuit_breakers["s1"].state = "CLOSED"
         /\ get_service_status(health_history, "s1") = "healthy")

\* C37 witness: the breaker opened, refused a check, and is CLOSED again with
\* a HEALTHY latest result
C37_Witness ==
    /\ "s1" \in DOMAIN hc_circuit_breakers
    /\ hc_circuit_breakers["s1"].state = "CLOSED"
    /\ get_service_status(health_history, "s1") = "healthy"
    /\ \E k \in 1..Len(health_history["s1"]) :
          health_history["s1"][k].error_message = "Circuit breaker open"

(***************************************************************************)
(* Claims about the health histories under concurrent check_all_services   *)
(***************************************************************************)
\* the monitoring thread and a request handler run check_all_services at the
\* same time on a HealthChecker for one service whose backend is healthy
NextHist ==
    \/ HealthCheckerNew(<<"s1">>)
    \/ \E t \in Threads : HistStep(t, HealthyBackend, ProbeTime)

SpecHist == Init /\ [][NextHist]_vars

\* C24: whenever no thread is inside the locked block of check_all_services,
\* the history of every service holds at most HealthHistoryMax (100) results
\* and is exactly the most recent min(n, 100) of the n results appended to
\* it, in append order: an append beyond 100 evicted the oldest.
C24_HistoryBounded ==
    hlock = NoThread =>
      \A s \in DOMAIN health_history :
        LET h == health_history[s]
            n == appended[s]
        IN  /\ Len(h) <= HealthHistoryMax
            /\ Len(h) = IF n < HealthHistoryMax THEN n ELSE HealthHistoryMax
            /\ \A k \in 1..Len(h) : h[k].seq = n - Len(h) + k

\* C24 witness: 150 results were appended to the history of "s1" by two
\* threads; it holds the 51st to the 150th
C24_Witness ==
    /\ hlock = NoThread /\ "s1" \in DOMAIN health_history
    /\ appended["s1"] = 150
    /\ Len(health_history["s1"]) = HealthHistoryMax
    /\ health_history["s1"][1].seq = 51
    /\ health_history["s1"][HealthHistoryMax].seq = 150
    /\ \A t \in Threads : hpc[t] = "check" /\ hidx[t] = 2

(***************************************************************************)
(* Claims about start_monitoring, stop_monitoring and _monitoring_loop     *)
(***************************************************************************)
\* two threads call start_monitoring and stop_monitoring, at the same time
\* or one after the other, while the loops they start run on a
\* HealthChecker for one service
NextMonConc ==
    \/ HealthCheckerNew(<<"s1">>)
    \/ \E c \in Controllers : CtlStep(c)
    \/ \E i \in LoopIds : LoopStep(i, HealthyBackend, ProbeTime)

SpecMonConc == Init /\ [][NextMonConc]_vars

\* one thread calls start_monitoring and stop_monitoring, one call after the
\* other, while the loops it starts run
NextMon ==
    \/ HealthCheckerNew(<<"s1">>)
    \/ CtlStep("c1")
    \/ \E i \in LoopIds : LoopStep(i, HealthyBackend, ProbeTime)

\* every started loop thread keeps being scheduled and its sleeps end
SpecMonFair ==
    /\ Init /\ [][NextMon]_vars
    /\ \A i \in LoopIds : WF_vars(LoopStep(i, HealthyBackend, ProbeTime))

\* the loops that are inside check_all_services
Cycling == {i \in LoopIds : loopPc[i] = "cycle"}

\* the controller whose stop_monitoring returns in this step
Returning == {c \in Controllers : ctlPc[c] # "idle" /\ ctlPc'[c] = "idle"}

\* C27: stop_monitoring returns only after the monitoring loop has exited:
\* when it returns, every loop that was running when it was called has
\* exited, every cycle that was begun and is not running has ended with its
\* results in the histories (unless check_all_services raised), and a loop
\* that has exited never starts a cycle again.
C27_CooperativeStop ==
    [][ /\ op' = "stop_monitoring: returned" =>
              /\ \A c \in Returning : \A i \in liveAtStop[c] :
                    loopPc'[i] = "exited"
              /\ loopCycles' = loopDone' + loopRaised' + Cardinality(Cycling')
              /\ \A s \in DOMAIN appended' : appended'[s] = loopDone'
        /\ \A i \in LoopIds :
              loopPc[i] = "exited" => loopPc'[i] = "exited"
      ]_vars

\* C28: for every interleaving of start_monitoring and stop_monitoring
\* calls, concurrent ones included, at most one monitoring loop is inside a
\* probe cycle at any time, and a start_monitoring that finds monitoring
\* running creates and starts no thread.
C28_SingleLoop ==
    [][ /\ Cardinality(Cycling') <= 1
        /\ op' = "start_monitoring: already running" =>
              UNCHANGED <<loopPc, check_thread, running>>
      ]_vars

\* C29: an exception raised by check_all_services in one iteration does not
\* end the loop: the loop leaves an iteration only to the next test of
\* self.running and ends only at a test that finds it False; after an
\* exception the loop runs check_all_services again unless stop was
\* signalled (or MaxLoopCycles iterations were made).
C29_LoopSurvivesExceptions ==
    /\ [][ \A i \in LoopIds :
              (loopPc[i] # "exited" /\ loopPc'[i] = "exited") =>
                 (loopPc[i] = "while" /\ ~running) ]_vars
    /\ \A i \in LoopIds :
          (loopPc[i] = "except") ~>
             (loopPc[i] = "cycle" \/ ~running \/ loopCycles = MaxLoopCycles)

\* C29 witness: the first iteration of the loop raised and the loop is
\* inside check_all_services again
C29_Witness ==
    /\ loopPc[1] = "cycle" /\ running
    /\ loopCycles = 2 /\ loopRaised = 1 /\ loopDone = 0

\* calls through the routing breaker of "s1", which register_service creates
NextCall ==
    \/ \E st \in {"healthy", "unhealthy"} :
          RegisterService("s1", NewInstance("A", st)) /\ UNCHANGED lastReg
    \/ \E s \in ServiceNames, ok \in BOOLEAN : BreakerCall(s, ok)
    \/ Tick

SpecCall == Init /\ [][NextCall]_vars

\* C38: a call() on the routing breaker made while it is OPEN and fewer than
\* recovery_timeout seconds after its last failure raises without invoking
\* the wrapped function and leaves the breaker (failure_count included) as it
\* was; and after every call(), whether it returned or raised, the breaker
\* is CLOSED exactly when failure_count < failure_threshold and OPEN exactly
\* when failure_count >= failure_threshold, so it is never HALF_OPEN between
\* two calls.
C38_RoutingBreakerStates ==
    [][ op' = "call" =>
          /\ \A s \in DOMAIN circuit_breakers :
                (/\ circuit_breakers[s].state = "OPEN"
                 /\ now - circuit_breakers[s].last_failure_time
                       < RoutingRecoveryTimeout) =>
                   callRet' = "rejected" /\ circuit_breakers' = circuit_breakers
          /\ \A s \in DOMAIN circuit_breakers' :
                LET b == circuit_breakers'[s] IN
                /\ b.state = "CLOSED" <=>
                      b.failure_count < RoutingFailureThreshold
                /\ b.state = "OPEN" <=>
                      b.failure_count >= RoutingFailureThreshold
      ]_vars

\* C38 witness: a call() was refused by the OPEN breaker of "s1" within
\* recovery_timeout of its last failure
C38_Witness ==
    /\ op = "call" /\ callRet = "rejected"
    /\ "s1" \in DOMAIN circuit_breakers
    /\ circuit_breakers["s1"].state = "OPEN"
    /\ circuit_breakers["s1"].failure_count >= RoutingFailureThreshold
    /\ now - circuit_breakers["s1"].last_failure_time < RoutingRecoveryTimeout

\* registration, deregistration, statistics and selection for two services:
\* "s1" gets "A" in any status and a degraded "B", "s2" is never registered
NextStats ==
    \/ \E st \in Statuses :
          RegisterService("s1", NewInstance("A", st)) /\ UNCHANGED lastReg
    \/ RegisterService("s1", NewInstance("B", "degraded")) /\ UNCHANGED lastReg
    \/ \E i \in {"A", "B"} : DeregisterService("s1", i)
    \/ \E s \in ServiceNames : GetServiceStats(s)
    \/ \E s \in ServiceNames, strategy \in Strategies :
          SelectInstance(s, strategy, NoIP) /\ NotCounted(s)

SpecStats == Init /\ [][NextStats]_vars

\* C39: get_service_stats reports healthy_instances = 0, with status
\* 'unhealthy' or 'unavailable', for a service exactly when select_instance
\* would return None for that service, whatever the strategy.
C39_StatsAgreeWithSelection ==
    [][ op' = "get_service_stats" =>
          LET s == statsRet'.service_name
              none == \A strategy \in Strategies,
                         r \in 1..Len(Get(services, s, <<>>)) \cup {1} :
                        select_instance(services, load_balancer_state, s,
                                        strategy, NoIP, r, 0)[1] = NoInstance
          IN  /\ (statsRet'.healthy_instances = 0) <=> none
              /\ (statsRet'.status \in {"unhealthy", "unavailable"}) <=> none
      ]_vars

====
